---- MODULE Spec2Model ----
(***************************************************************************)
(* A model of the frystl containers: static_deque (static_deque.hpp),      *)
(* static_vector (static_vector.hpp) and mf_vector (mf_vector.hpp).        *)
(*                                                                         *)
(* Storage is modelled cell by cell.  A cell is a record [v, c]: v is the  *)
(* value held (0 when the cell holds no meaningful value: raw storage, a   *)
(* destroyed element or a moved-from element) and c says whether an        *)
(* element is constructed in the cell.  Pointers into a buffer are cell    *)
(* numbers, FirstSpace() being cell 0.  The contract checks are modelled   *)
(* as compiled in (FRYSTL_DEBUG): a failed check aborts the program.       *)
(***************************************************************************)
EXTENDS Integers, Sequences, FiniteSets, TLC

\* ------------------------------------------------------------------- state
VARIABLES
    sd_elem,    \* _elem: the buffer, cell number -> cell
    sd_begin,   \* _begin
    sd_end,     \* _end
    sd_status,  \* "ok", "abort" (a contract check failed) or
                \* "oob" (a cell outside the buffer was written)
    sd_abs,     \* the sequence the last call had to produce from what the
                \* deque held before it (the abstract operation's result)
    sd_hist     \* observer: the pushes since the default construction, and
                \* whether the last call re-centered

sd_vars == <<sd_elem, sd_begin, sd_end, sd_status, sd_abs, sd_hist>>

VARIABLES
    sv_elem,    \* _elem: the buffer, cell number -> cell
    sv_size,    \* _size
    sv_status,  \* "ok", "abort" (a contract check failed) or
                \* "oob" (a cell outside the buffer was written)
    sv_abs      \* the sequence the last call had to produce from what the
                \* vector held before it (the abstract operation's result)

sv_vars == <<sv_elem, sv_size, sv_status, sv_abs>>

VARIABLES
    mf_blocks,  \* _blocks of the mf_vector under test: block addresses, the
                \* last entry being the address of MFVectorDummyEnd
    mf_size,    \* its _size
    mo_blocks,  \* _blocks of a second mf_vector, the argument of swap and move
    mo_size,    \* its _size
    mo_bs,      \* its BlockSize template parameter
    mf_heap,    \* the free store: cell address -> cell
    mf_alloc,   \* the addresses of the blocks obtained by new[] and not
                \* yet released by delete[]
    mf_status,  \* "ok", "abort" (a contract check failed), "ub" or "throw"
                \* (the last call left by an exception)
    mf_abs,     \* the sequence the last call had to leave in the vector
    mo_abs,     \* the sequence the last call had to leave in the second one
    mf_cap,     \* _blocks.capacity() of the vector under test
    mo_cap      \* _blocks.capacity() of the second vector

mf_vars == <<mf_blocks, mf_size, mo_blocks, mo_size, mo_bs, mf_heap, mf_alloc,
             mf_status, mf_abs, mo_abs, mf_cap, mo_cap>>

VARIABLES
    sd_dst,     \* a static_deque under construction from the one above, in
                \* scope until its destructor runs
    sv_dst,     \* a static_vector under construction from the one above
    ct_kind,    \* which container the calling block of code works on
    cc          \* a push_back in progress in one thread and the reads of the
                \* vector made by other threads meanwhile

ct_vars == <<sd_dst, sv_dst, ct_kind, cc>>

vars == <<sd_vars, sv_vars, mf_vars, ct_vars>>

\* ------------------------------------------------------------------ bounds
\* template parameter Capacity of the static_deque under test
Capacity == 3
\* element values the callers pass in
MaxVal == 2
\* largest count of a fill insert, largest length of an inserted range
MaxN == 2
\* template parameter Capacity of the static_vector under test
SvCapacity == 4

\* the number of addresses, counted in cells; an index of the containers'
\* size_type can be as large as an address
PtrSpace == 16

Val == 1..MaxVal

\* sequences over S of length at most n
RECURSIVE SeqsUpTo(_, _)
SeqsUpTo(S, n) ==
    IF n = 0 THEN {<<>>}
    ELSE LET shorter == SeqsUpTo(S, n - 1)
         IN  shorter \cup {Append(s, x) : s \in {t \in shorter : Len(t) = n - 1}, x \in S}

\* the element of a one-element set: The({F(v) : v \in {e}}) is F(e)
The(S) == CHOOSE r \in S : TRUE

Ranges == SeqsUpTo(Val, MaxN)

Min(a, b) == IF a <= b THEN a ELSE b

\* ------------------------------------------------------------------- cells
\* raw storage: std::aligned_storage_t, nothing constructed in it
RawCell == [v |-> 0, c |-> FALSE]

\* SelfCount::count, the number of undestructed instances: a storage that is
\* being counted keeps it under this key, beside its cells
Tally == 0 - 1

\* a storage with the count n beside its cells
Counted(elem, n) == (Tally :> [v |-> n, c |-> FALSE]) @@ elem

\* IncrCount(1), in every constructor of the element type
Born(elem) ==
    IF Tally \in DOMAIN elem
    THEN [elem EXCEPT ![Tally] = [v |-> @.v + 1, c |-> FALSE]]
    ELSE elem

\* IncrCount(-1), in the destructor of the element type
Died(elem) ==
    IF Tally \in DOMAIN elem
    THEN [elem EXCEPT ![Tally] = [v |-> @.v - 1, c |-> FALSE]]
    ELSE elem

\* new (p) value_type(x)
Construct(elem, p, x) == Born([elem EXCEPT ![p] = [v |-> x, c |-> TRUE]])

\* p->~value_type()
Destroy(elem, p) == Died([elem EXCEPT ![p] = RawCell])

\* *p = value_type(x): the cell takes the value, no lifetime starts
Assign(elem, p, x) == [elem EXCEPT ![p] = [v |-> x, c |-> @.c]]

\* new (to) value_type(std::move(*from)): the source is left moved-from
MoveConstructCell(elem, from, to) ==
    Born([elem EXCEPT ![to] = [v |-> elem[from].v, c |-> TRUE],
                      ![from] = [v |-> 0, c |-> @.c]])

\* *to = std::move(*from): the source is left moved-from
MoveAssignCell(elem, from, to) ==
    IF from = to THEN elem
    ELSE [elem EXCEPT ![to] = [v |-> elem[from].v, c |-> @.c],
                      ![from] = [v |-> 0, c |-> @.c]]

\* std::move(first, last, d): front to back, one move assignment per element
RECURSIVE StdMove(_, _, _, _)
StdMove(elem, first, last, d) ==
    IF first >= last THEN elem
    ELSE StdMove(MoveAssignCell(elem, first, d), first + 1, last, d + 1)

\* mutant: the right shift done front to back, as std::move would do it
MutStdMoveBackward(elem, first, last, dLast) ==
    StdMove(elem, first, last, dLast - (last - first))

\* std::move_backward(first, last, dLast): back to front
RECURSIVE StdMoveBackward(_, _, _, _)
StdMoveBackward(elem, first, last, dLast) ==
    IF first >= last THEN elem
    ELSE StdMoveBackward(MoveAssignCell(elem, last - 1, dLast - 1),
                         first, last - 1, dLast - 1)

\* ============================================================ static_deque
\* _trueCap
TrueCap == 2 * (Capacity - 1) + 1

FirstSpace == 0

PastLastSpace == FirstSpace + TrueCap

SdCells == FirstSpace .. (PastLastSpace - 1)

\* Centered(n)
Centered(n) == FirstSpace + Capacity - 1 - (n \div 2)

\* the deque as one value, for the member functions below
SdThis == [elem |-> sd_elem, begin |-> sd_begin, end |-> sd_end, st |-> sd_status]

\* size()
SdSize(d) == d.end - d.begin

\* operator[](index), for index < size()
SdAt(d, index) == d.elem[d.begin + index].v

\* the places the array _elem can have in the address space: base is the
\* address of its first cell, counted in cells
SdBases == 1 .. (PtrSpace - TrueCap - 1)

\* at(index): Verify(_begin + index < _end), then *(_begin + index), the
\* array being at base. While _begin + index is a cell of the array or one
\* past it the comparison is that of index with size(). Beyond that the
\* pointer arithmetic is undefined: the build compares the offsets, or it
\* compares the addresses, and the sum wraps around in an address space of
\* PtrSpace cells; a cell outside the window is then read ("ub")
SdAtOp(d, index, base) ==
    LET p == (base + d.begin + index) % PtrSpace
        byOffset == IF index < SdSize(d)
                    THEN [st |-> "ok", v |-> SdAt(d, index)]
                    ELSE [st |-> "throw", v |-> 0]
        byAddress == IF p < base + d.end
                     THEN IF p - base \in d.begin .. (d.end - 1)
                          THEN [st |-> "ok", v |-> d.elem[p - base].v]
                          ELSE [st |-> "ub", v |-> 0]
                     ELSE [st |-> "throw", v |-> 0]
    IN  IF d.begin + index <= PastLastSpace THEN {byOffset}
        ELSE {byOffset, byAddress}

\* the elements front to back, as operator[] returns them
SdContents(d) == [i \in 1..SdSize(d) |-> SdAt(d, i - 1)]

\* FRYSTL_ASSERT2 failed: AssertFailed() raises SIGABRT
SdAbort(d) == [d EXCEPT !.st = "abort"]

\* mutant: Recenter that sets _begin and _end and moves no element
MutSdRecenter(d) ==
    [d EXCEPT !.begin = Centered(SdSize(d)), !.end = Centered(SdSize(d)) + SdSize(d)]

\* Recenter()
SdRecenter(d) ==
    LET sz == SdSize(d)
        begin == Centered(sz)
    IN  IF ~(FirstSpace <= begin) THEN SdAbort(d)
        ELSE [d EXCEPT
                !.elem = IF begin < d.begin THEN StdMove(d.elem, d.begin, d.end, begin)
                         ELSE IF d.begin < begin
                              THEN StdMoveBackward(d.elem, d.begin, d.end, begin + sz)
                              ELSE d.elem,
                !.begin = begin,
                !.end = begin + sz]

\* emplace_front(args...) and push_front(t)
SdPushFrontOp(d, x) ==
    LET r == IF d.begin = FirstSpace THEN SdRecenter(d) ELSE d
    IN  IF r.st # "ok" THEN r
        ELSE IF (r.begin - 1) \in SdCells
             THEN [r EXCEPT !.elem = Construct(r.elem, r.begin - 1, x),
                            !.begin = r.begin - 1]
             ELSE [r EXCEPT !.begin = r.begin - 1, !.st = "oob"]

\* emplace_back(args...) and push_back(t)
SdPushBackOp(d, x) ==
    LET r == IF d.end = FirstSpace + TrueCap THEN SdRecenter(d) ELSE d
    IN  IF r.st # "ok" THEN r
        ELSE IF r.end \in SdCells
             THEN [r EXCEPT !.elem = Construct(r.elem, r.end, x),
                            !.end = r.end + 1]
             ELSE [r EXCEPT !.end = r.end + 1, !.st = "oob"]

\* pop_front()
SdPopFrontOp(d) ==
    IF ~(d.begin < d.end) THEN SdAbort(d)
    ELSE [d EXCEPT !.begin = d.begin + 1, !.elem = Destroy(d.elem, d.begin)]

\* pop_back()
SdPopBackOp(d) ==
    IF ~(d.begin < d.end) THEN SdAbort(d)
    ELSE [d EXCEPT !.elem = Destroy(d.elem, d.end - 1), !.end = d.end - 1]

\* DestructAll()
RECURSIVE DestroyRange(_, _, _)
DestroyRange(elem, first, last) ==
    IF first >= last THEN elem
    ELSE DestroyRange(Destroy(elem, first), first + 1, last)

\* clear()
SdClearOp(d) ==
    [d EXCEPT !.elem = DestroyRange(d.elem, d.begin, d.end),
              !.begin = Centered(0), !.end = Centered(0)]

\* Dereferencable(iter)
SdDereferencable(d, iter) == d.begin <= iter /\ iter < d.end

\* the loop of MakeRoomAfter: fill the uninitialized target cells by move
\* construction, back to front
RECURSIVE SdRoomAfterLoop(_, _, _, _, _)
SdRoomAfterLoop(elem, p, e, src, tgt) ==
    IF p < src /\ e < tgt
    THEN SdRoomAfterLoop(MoveConstructCell(elem, src - 1, tgt - 1), p, e, src - 1, tgt - 1)
    ELSE [elem |-> elem, src |-> src, tgt |-> tgt]

\* MakeRoomAfter(p, n): the result carries the returned iterator as t
SdMakeRoomAfter(d, p, n) ==
    LET l == SdRoomAfterLoop(d.elem, p, d.end, d.end, d.end + n)
    IN  [elem |-> StdMoveBackward(l.elem, p, l.src, l.tgt),
         begin |-> d.begin, end |-> d.end + n, st |-> d.st, t |-> p]

\* the loop of MakeRoomBefore: fill the uninitialized target cells by move
\* construction, front to back
RECURSIVE SdRoomBeforeLoop(_, _, _, _, _)
SdRoomBeforeLoop(elem, p, b, src, tgt) ==
    IF src < p /\ tgt < b
    THEN SdRoomBeforeLoop(MoveConstructCell(elem, src, tgt), p, b, src + 1, tgt + 1)
    ELSE [elem |-> elem, src |-> src, tgt |-> tgt]

\* MakeRoomBefore(p, n)
SdMakeRoomBefore(d, p, n) ==
    IF ~(FirstSpace <= d.begin - n)
    THEN [elem |-> d.elem, begin |-> d.begin, end |-> d.end, st |-> "abort", t |-> p]
    ELSE LET l == SdRoomBeforeLoop(d.elem, p, d.begin, d.begin, d.begin - n)
         IN  [elem |-> StdMove(l.elem, l.src, p, l.tgt),
              begin |-> d.begin - n, end |-> d.end, st |-> d.st, t |-> p - n]

\* mutant: MakeRoom that always slides the cells before p to the front
MutSdMakeRoom(d, p, n) == SdMakeRoomBefore(d, p, n)

\* MakeRoom(constp, n)
SdMakeRoom(d, p, n) ==
    IF d.end - p < p - d.begin /\ d.end + n <= PastLastSpace
    THEN SdMakeRoomAfter(d, p, n)
    ELSE SdMakeRoomBefore(d, p, n)

\* FillCell(b, e, pos, args...)
SdFillCell(elem, b, e, pos, x) ==
    IF b <= pos /\ pos < e THEN Assign(elem, pos, x) ELSE Construct(elem, pos, x)

\* FillCell over the cells t, t+1, ... with the values of xs in order
RECURSIVE SdFillCells(_, _, _, _, _)
SdFillCells(elem, b, e, t, xs) ==
    IF xs = <<>> THEN elem
    ELSE SdFillCells(SdFillCell(elem, b, e, t, Head(xs)), b, e, t + 1, Tail(xs))

\* n copies of x
Fill(n, x) == [i \in 1..n |-> x]

\* emplace(pos, args...)
SdEmplaceOp(d, pos, x) ==
    LET atEdge == pos = d.begin \/ pos = d.end
        r == SdMakeRoom(d, pos, 1)
    IN  IF r.st # "ok" THEN r
        ELSE [r EXCEPT !.elem = IF atEdge THEN Construct(r.elem, r.t, x)
                                          ELSE Assign(r.elem, r.t, x)]

\* move insert(position, value_type&&)
SdInsertMoveOp(d, position, x) ==
    IF ~(d.begin <= position /\ position <= d.end)
    THEN SdAbort(d) @@ [t |-> position]
    ELSE LET r == SdMakeRoom(d, position, 1)
         IN  IF r.st # "ok" THEN r
             ELSE [r EXCEPT !.elem = IF d.begin <= r.t /\ r.t < d.end
                                     THEN Assign(r.elem, r.t, x)
                                     ELSE Construct(r.elem, r.t, x)]

\* the body shared by fill insert and initializer-list insert: check the
\* position, make room, FillCell the new cells from xs
SdInsertSeqOp(d, position, xs) ==
    IF ~(d.begin <= position /\ position <= d.end)
    THEN SdAbort(d) @@ [t |-> position]
    ELSE LET r == SdMakeRoom(d, position, Len(xs))
         IN  IF r.st # "ok" THEN r
             ELSE [r EXCEPT !.elem = SdFillCells(r.elem, d.begin, d.end, r.t, xs)]

\* fill insert(position, n, val); insert(position, val) is insert(position, 1, val)
SdInsertFillOp(d, position, n, x) == SdInsertSeqOp(d, position, Fill(n, x))

\* insert(position, initializer_list)
SdInsertIlOp(d, position, il) == SdInsertSeqOp(d, position, il)

\* insert(position, first, last, random_access_iterator_tag)
SdInsertRangeRaOp(d, position, xs) ==
    LET r == SdMakeRoom(d, position, Len(xs))
    IN  IF r.st # "ok" THEN r
        ELSE [r EXCEPT !.elem = SdFillCells(r.elem, d.begin, d.end, r.t, xs)]

\* insert(position, first, last, input_iterator_tag):
\* while (first != last) insert(position++, *first++); return position
RECURSIVE SdInsertRangeInOp(_, _, _)
SdInsertRangeInOp(d, position, xs) ==
    IF xs = <<>> \/ d.st # "ok"
    THEN [elem |-> d.elem, begin |-> d.begin, end |-> d.end, st |-> d.st, t |-> position]
    ELSE LET r == SdInsertFillOp(d, position, 1, Head(xs))
         IN  SdInsertRangeInOp([elem |-> r.elem, begin |-> r.begin, end |-> r.end,
                                st |-> r.st], position + 1, Tail(xs))

\* mutant: an erase that always moves the elements from last on
MutSdEraseOp(d, first, last) ==
    IF first = last THEN d @@ [t |-> last]
    ELSE [elem |-> StdMove(DestroyRange(d.elem, first, last), last, d.end, first),
          begin |-> d.begin, end |-> d.end - (last - first), st |-> d.st,
          t |-> first]

\* erase(first, last)
SdEraseOp(d, first, last) ==
    IF first = last THEN d @@ [t |-> last]
    ELSE IF ~(first < last /\ SdDereferencable(d, first) /\ SdDereferencable(d, last - 1))
    THEN SdAbort(d) @@ [t |-> last]
    ELSE LET nToErase == last - first
             destroyed == DestroyRange(d.elem, first, last)
         IN  IF first - d.begin < d.end - last
             THEN [elem |-> StdMoveBackward(destroyed, d.begin, first, last),
                   begin |-> d.begin + nToErase, end |-> d.end, st |-> d.st, t |-> last]
             ELSE [elem |-> StdMove(destroyed, last, d.end, first),
                   begin |-> d.begin, end |-> d.end - nToErase, st |-> d.st, t |-> first]

\* erase(position)
SdEraseOneOp(d, position) == SdEraseOp(d, position, position + 1)

\* ------------------------------------------- abstract sequence operations
\* xs inserted before the element at index i (counted from 0)
InsertAt(s, i, xs) == SubSeq(s, 1, i) \o xs \o SubSeq(s, i + 1, Len(s))

\* the elements at the indices i .. j-1 (counted from 0) removed
EraseAt(s, i, j) == SubSeq(s, 1, i) \o SubSeq(s, j + 1, Len(s))

\* --------------------------------------------------- static_deque actions
\* static_deque(): the default constructor
SdInit ==
    /\ sd_elem = [p \in SdCells |-> RawCell]
    /\ sd_begin = Centered(1)
    /\ sd_end = Centered(1)
    /\ sd_status = "ok"
    /\ sd_abs = <<>>
    /\ sd_hist = [pure |-> TRUE, first |-> "none", pf |-> 0, pb |-> 0,
                  everSlid |-> FALSE, slid |-> FALSE]

\* the member function's result r becomes the state
SdSet(r) ==
    /\ UNCHANGED <<sv_vars, mf_vars, ct_vars>>
    /\ sd_elem' = r.elem
    /\ sd_begin' = r.begin
    /\ sd_end' = r.end
    /\ sd_status' = r.st

\* a push that finds the window at the buffer edge it pushes to (atEdge)
\* calls Recenter(), which relocates the elements unless they are centered
SdPushSlides(atEdge) ==
    atEdge /\ sd_begin < sd_end /\ SdRecenter(SdThis).begin # sd_begin

\* the history after a push to `side` that did or did not re-center
SdHistPush(side, slides) ==
    IF sd_hist.pure
    THEN [sd_hist EXCEPT
            !.first = IF @ = "none" THEN side ELSE @,
            !.pf = IF sd_hist.first # "none" /\ side = "front" THEN @ + 1 ELSE @,
            !.pb = IF sd_hist.first # "none" /\ side = "back" THEN @ + 1 ELSE @,
            !.everSlid = @ \/ slides,
            !.slid = slides]
    ELSE [sd_hist EXCEPT !.slid = slides]

\* the history after any other call
SdHistOther ==
    [pure |-> FALSE, first |-> "none", pf |-> 0, pb |-> 0,
     everSlid |-> FALSE, slid |-> FALSE]

SdPushFront(x) ==
    /\ sd_status = "ok"
    /\ SdSet(SdPushFrontOp(SdThis, x))
    /\ sd_hist' = SdHistPush("front", SdPushSlides(sd_begin = FirstSpace))
    /\ sd_abs' = <<x>> \o SdContents(SdThis)

SdPushBack(x) ==
    /\ sd_status = "ok"
    /\ SdSet(SdPushBackOp(SdThis, x))
    /\ sd_hist' = SdHistPush("back", SdPushSlides(sd_end = FirstSpace + TrueCap))
    /\ sd_abs' = Append(SdContents(SdThis), x)

SdPopFront ==
    /\ sd_status = "ok"
    /\ SdSet(SdPopFrontOp(SdThis))
    /\ sd_hist' = SdHistOther
    /\ sd_abs' = IF sd_begin = sd_end THEN <<>> ELSE Tail(SdContents(SdThis))

SdPopBack ==
    /\ sd_status = "ok"
    /\ SdSet(SdPopBackOp(SdThis))
    /\ sd_hist' = SdHistOther
    /\ sd_abs' = IF sd_begin = sd_end THEN <<>>
                 ELSE SubSeq(SdContents(SdThis), 1, sd_end - sd_begin - 1)

SdClear ==
    /\ sd_status = "ok"
    /\ SdSet(SdClearOp(SdThis))
    /\ sd_hist' = SdHistOther
    /\ sd_abs' = <<>>

\* an insertion of xs at index i by the member function whose result is r
SdInserted(r, i, xs) ==
    /\ sd_status = "ok"
    /\ SdSet(r)
    /\ sd_hist' = SdHistOther
    /\ sd_abs' = InsertAt(SdContents(SdThis), i, xs)

SdEmplace(i, x) ==
    SdInserted(SdEmplaceOp(SdThis, sd_begin + i, x), i, <<x>>)

SdInsert(i, x) ==
    SdInserted(SdInsertFillOp(SdThis, sd_begin + i, 1, x), i, <<x>>)

SdInsertMove(i, x) ==
    SdInserted(SdInsertMoveOp(SdThis, sd_begin + i, x), i, <<x>>)

SdInsertFill(i, n, x) ==
    SdInserted(SdInsertFillOp(SdThis, sd_begin + i, n, x), i, Fill(n, x))

SdInsertIl(i, xs) ==
    SdInserted(SdInsertIlOp(SdThis, sd_begin + i, xs), i, xs)

SdInsertRangeRa(i, xs) ==
    SdInserted(SdInsertRangeRaOp(SdThis, sd_begin + i, xs), i, xs)

SdInsertRangeIn(i, xs) ==
    SdInserted(SdInsertRangeInOp(SdThis, sd_begin + i, xs), i, xs)

SdErase(i, j) ==
    /\ sd_status = "ok"
    /\ SdSet(SdEraseOp(SdThis, sd_begin + i, sd_begin + j))
    /\ sd_hist' = SdHistOther
    /\ sd_abs' = EraseAt(SdContents(SdThis), i, j)

SdEraseOne(i) ==
    /\ sd_status = "ok"
    /\ SdSet(SdEraseOneOp(SdThis, sd_begin + i))
    /\ sd_hist' = SdHistOther
    /\ sd_abs' = EraseAt(SdContents(SdThis), i, i + 1)

\* positions the callers may pass: begin() + i for i in 0 .. size()
SdPositions == 0 .. (sd_end - sd_begin)

\* the callers may add n elements and stay within Capacity
SdFits(n) == sd_end - sd_begin + n <= Capacity

\* push and pop, each push issued while size() < _trueCap
SdPushNext ==
    \/ \E x \in Val : sd_end - sd_begin < TrueCap /\ SdPushFront(x)
    \/ \E x \in Val : sd_end - sd_begin < TrueCap /\ SdPushBack(x)
    \/ SdPopFront
    \/ SdPopBack

\* push, pop, emplace, single and fill insert, erase, clear, by callers that
\* keep size() within Capacity
SdNext ==
    \/ \E x \in Val : SdFits(1) /\ SdPushFront(x)
    \/ \E x \in Val : SdFits(1) /\ SdPushBack(x)
    \/ SdPopFront
    \/ SdPopBack
    \/ SdClear
    \/ \E i \in SdPositions, x \in Val : SdFits(1) /\ SdEmplace(i, x)
    \/ \E i \in SdPositions, x \in Val : SdFits(1) /\ SdInsert(i, x)
    \/ \E i \in SdPositions, x \in Val : SdFits(1) /\ SdInsertMove(i, x)
    \/ \E i \in SdPositions, n \in 0..MaxN, x \in Val : SdFits(n) /\ SdInsertFill(i, n, x)
    \/ \E i \in SdPositions, j \in SdPositions : i <= j /\ SdErase(i, j)
    \/ \E i \in SdPositions : i < sd_end - sd_begin /\ SdEraseOne(i)

\* every push and every form of insert, by callers that use the whole buffer
SdWideNext ==
    \/ \E x \in Val : SdPushFront(x)
    \/ \E x \in Val : SdPushBack(x)
    \/ SdPopFront
    \/ SdPopBack
    \/ \E i \in SdPositions, x \in Val : SdInsert(i, x)
    \/ \E i \in SdPositions, n \in 0..MaxN, x \in Val : SdInsertFill(i, n, x)
    \/ \E i \in SdPositions, xs \in Ranges : SdInsertIl(i, xs)
    \/ \E i \in SdPositions, xs \in Ranges : SdInsertRangeRa(i, xs)
    \/ \E i \in SdPositions, xs \in Ranges : SdInsertRangeIn(i, xs)


\* ------------------------------- static_deque copy and move construction
\* the capacity of the deque constructed: the donor's, or one more or less
OtherCapacities == {Capacity - 1, Capacity, Capacity + 1}

\* no object in scope
NoDst == [live |-> FALSE]

\* _trueCap of a static_deque of capacity cap
TrueCapOf(cap) == 2 * (cap - 1) + 1

\* Centered(n) in a static_deque of capacity cap
CenteredOf(cap, n) == FirstSpace + cap - 1 - (n \div 2)

\* the member initializers _begin(Centered(donor.size())), _end(_begin)
SdDstNew(cap, n) ==
    [live |-> TRUE, cap |-> cap,
     elem |-> [p \in FirstSpace .. (FirstSpace + TrueCapOf(cap) - 1) |-> RawCell],
     begin |-> CenteredOf(cap, n), end |-> CenteredOf(cap, n), st |-> "ok"]

\* Recenter() in the deque under construction
SdDstRecenter(d) ==
    LET sz == SdSize(d)
        begin == CenteredOf(d.cap, sz)
    IN  IF ~(FirstSpace <= begin) THEN SdAbort(d)
        ELSE [d EXCEPT
                !.elem = IF begin < d.begin THEN StdMove(d.elem, d.begin, d.end, begin)
                         ELSE IF d.begin < begin
                              THEN StdMoveBackward(d.elem, d.begin, d.end, begin + sz)
                              ELSE d.elem,
                !.begin = begin,
                !.end = begin + sz]

\* emplace_back(args...) in the deque under construction
SdDstEmplaceBack(d, x) ==
    LET r == IF d.end = FirstSpace + TrueCapOf(d.cap) THEN SdDstRecenter(d) ELSE d
    IN  IF r.st # "ok" THEN r
        ELSE IF r.end \in DOMAIN r.elem
             THEN [r EXCEPT !.elem = Construct(r.elem, r.end, x),
                            !.end = r.end + 1]
             ELSE [r EXCEPT !.end = r.end + 1, !.st = "oob"]

\* for (auto &m : donor) emplace_back(m), or emplace_back(std::move(m)) which
\* leaves m moved-from: the argument of emplace_back is taken by value
RECURSIVE SdCtorLoop(_, _, _, _)
\* emplace_back(value) for every value of xs in order
RECURSIVE SdPushAll(_, _)
SdPushAll(d, xs) ==
    IF xs = <<>> \/ d.st # "ok" THEN d
    ELSE SdPushAll(SdDstEmplaceBack(d, Head(xs)), Tail(xs))

\* for (pointer p = _begin; p < _end; ++p) new (p) value_type(value)
RECURSIVE SdNewEach(_, _, _)
SdNewEach(elem, p, xs) ==
    IF xs = <<>> THEN elem
    ELSE SdNewEach(Construct(elem, p, Head(xs)), p + 1, Tail(xs))

\* push_back(value) for every value of xs in order
RECURSIVE SdPushBackAll(_, _)
SdPushBackAll(d, xs) ==
    IF xs = <<>> \/ d.st # "ok" THEN d
    ELSE SdPushBackAll(SdPushBackOp(d, Head(xs)), Tail(xs))

SdCtorLoop(dst, donor, p, moves) ==
    IF p >= donor.end \/ dst.st # "ok" THEN [dst |-> dst, donor |-> donor]
    ELSE SdCtorLoop(SdDstEmplaceBack(dst, donor.elem[p].v),
                    IF moves THEN [donor EXCEPT !.elem[p].v = 0] ELSE donor,
                    p + 1, moves)

\* static_deque(const this_type &donor), static_deque(this_type &&donor), and
\* the templates for a donor of another capacity, which check the size first
SdConstructOp(cap, donor, moves) ==
    LET new == SdDstNew(cap, SdSize(donor))
    IN  IF cap # Capacity /\ ~(SdSize(donor) <= TrueCapOf(cap))
        THEN [dst |-> SdAbort(new), donor |-> donor]
        ELSE SdCtorLoop(new, donor, donor.begin, moves)

\* static_deque(initializer_list)
SdIlConstructOp(il) ==
    IF ~(Len(il) <= TrueCap) THEN SdAbort(SdDstNew(Capacity, Len(il)))
    ELSE SdPushAll(SdDstNew(Capacity, Len(il)), il)

\* for (auto &o : other) new (_end++) value_type(std::move(o))
RECURSIVE SdMoveEach(_, _, _)
SdMoveEach(d, o, p) ==
    IF p >= o.end THEN [d |-> d, o |-> o]
    ELSE SdMoveEach([d EXCEPT !.elem = Construct(@, d.end, o.elem[p].v),
                              !.end = @ + 1],
                    [o EXCEPT !.elem[p].v = 0], p + 1)

\* operator=(this_type &&other)
SdMoveAssignOp(d, o) ==
    IF ~(SdSize(o) <= TrueCap) THEN [d |-> SdAbort(d), o |-> o]
    ELSE SdMoveEach([d EXCEPT !.elem = DestroyRange(@, d.begin, d.end),
                              !.begin = Centered(SdSize(o)),
                              !.end = Centered(SdSize(o))],
                    o, o.begin)

\* swap(x), which is std::swap(*this, x): tmp is move constructed from a,
\* b is move assigned to a, tmp is move assigned to b, tmp is destroyed
SdSwapOp(a, b) ==
    LET t == SdConstructOp(Capacity, a, TRUE)
        ab == SdMoveAssignOp(t.donor, b)
        bt == SdMoveAssignOp(ab.o, t.dst)
    IN  [a |-> ab.d, b |-> bt.d]

\* static_deque(count, value)
SdFillConstructOp(n, x) ==
    LET new == SdDstNew(Capacity, n)
    IN  IF ~(n <= TrueCap) THEN SdAbort([new EXCEPT !.end = @ + n])
        ELSE [new EXCEPT !.elem = SdNewEach(@, new.begin, Fill(n, x)), !.end = @ + n]

\* Center(begin, end, iterator_category), the range holding n elements: the
\* place where the first push_back will put its element
SdCenter(n, randomAccess) == IF randomAccess THEN Centered(n) ELSE Centered(0)

\* static_deque(begin, end), the range holding xs
SdRangeConstructOp(xs, randomAccess) ==
    LET new == SdDstNew(Capacity, 0)
        c == SdCenter(Len(xs), randomAccess)
    IN  IF randomAccess /\ ~(Len(xs) <= TrueCap) THEN SdAbort(new)
        ELSE SdPushAll([new EXCEPT !.begin = c, !.end = c], xs)

\* assign(begin, end), the range holding xs
SdAssignRangeOp(d, xs, randomAccess) ==
    LET c == SdCenter(Len(xs), randomAccess)
    IN  IF randomAccess /\ ~(Len(xs) <= TrueCap)
        THEN SdAbort([d EXCEPT !.elem = DestroyRange(@, d.begin, d.end)])
        ELSE SdPushBackAll([d EXCEPT !.elem = DestroyRange(@, d.begin, d.end),
                                     !.begin = c, !.end = c], xs)

\* assign(n, val)
SdAssignFillOp(d, n, x) ==
    IF ~(n <= TrueCap) THEN SdAbort(d) ELSE SdAssignRangeOp(d, Fill(n, x), TRUE)

\* assign(initializer_list)
SdAssignIlOp(d, il) ==
    IF ~(Len(il) <= TrueCap) THEN SdAbort(d) ELSE SdAssignRangeOp(d, il, TRUE)

\* a construction from the deque under test
SdConstruct(cap, moves) ==
    LET r == SdConstructOp(cap, SdThis, moves)
    IN  /\ ct_kind = "sd"
        /\ sd_status = "ok"
        /\ ~sd_dst.live
        /\ sd_dst' = r.dst
        /\ sd_elem' = r.donor.elem
        /\ sd_begin' = r.donor.begin
        /\ sd_end' = r.donor.end
        /\ sd_status' = r.dst.st
        /\ sd_hist' = SdHistOther
        /\ sd_abs' = SdContents(r.donor)
        /\ UNCHANGED <<sv_vars, mf_vars, sv_dst, ct_kind, cc>>

\* static_deque<T, cap> dst(donor)
SdCopyConstruct(cap) == SdConstruct(cap, FALSE)

\* static_deque<T, cap> dst(std::move(donor))
SdMoveConstruct(cap) == SdConstruct(cap, TRUE)

\* callers that fill a deque and construct others from it
SdCtorNext ==
    \/ /\ ct_kind = "sd" /\ ~sd_dst.live
       /\ sd_end - sd_begin < TrueCap /\ SdPushFront(1)
    \/ \E x \in {1, MaxVal} : /\ ct_kind = "sd" /\ ~sd_dst.live
                              /\ sd_end - sd_begin < TrueCap /\ SdPushBack(x)
    \/ ct_kind = "sd" /\ ~sd_dst.live /\ SdPopFront
    \/ ct_kind = "sd" /\ ~sd_dst.live /\ SdPopBack
    \/ \E cap \in OtherCapacities : SdCopyConstruct(cap)
    \/ \E cap \in OtherCapacities : SdMoveConstruct(cap)

\* =========================================================== static_vector
SvCells == 0 .. (SvCapacity - 1)

\* the vector as one value, for the member functions below
SvThis == [elem |-> sv_elem, size |-> sv_size, st |-> sv_status]

\* operator[](i), for i < size()
SvAt(d, i) == d.elem[i].v

\* at(i): Verify(i < _size), then data()[i]
SvAtOp(d, i) ==
    IF i < d.size THEN [st |-> "ok", v |-> SvAt(d, i)]
    ELSE [st |-> "throw", v |-> 0]

\* the elements in index order, as operator[] returns them
SvContents(d) == [i \in 1..d.size |-> SvAt(d, i - 1)]

\* FRYSTL_ASSERT failed: FryStlAssertFailed() raises SIGABRT
SvAbort(d) == [d EXCEPT !.st = "abort"]

\* GoodIter(it): it-1 can be dereferenced
SvGoodIter(d, it) == 0 < it /\ it <= d.size

\* emplace_back(args...), push_back(cd)
SvEmplaceBackOp(d, x) ==
    IF ~(d.size < SvCapacity) THEN SvAbort(d)
    ELSE [d EXCEPT !.elem = Construct(d.elem, d.size, x), !.size = d.size + 1]

\* pop_back()
SvPopBackOp(d) ==
    IF d.size = 0 THEN SvAbort(d)
    ELSE [d EXCEPT !.size = d.size - 1, !.elem = Destroy(d.elem, d.size - 1)]

\* clear(): while (_size) pop_back()
RECURSIVE SvClearOp(_)
SvClearOp(d) == IF d.size = 0 THEN d ELSE SvClearOp(SvPopBackOp(d))

\* the first loop of MakeRoom: move construction of the last nu elements into
\* the cells past the end, i = 0 .. nu-1
RECURSIVE SvRoomLoop(_, _, _, _, _)
SvRoomLoop(elem, end, n, nu, i) ==
    IF i < nu
    THEN SvRoomLoop(MoveConstructCell(elem, end - nu + i, end + n - nu + i), end, n, nu, i + 1)
    ELSE elem

\* mutant: MakeRoom that shifts front to back
MutSvMakeRoom(d, p, n) ==
    LET nu == Min(d.size - p, n)
    IN  StdMove(SvRoomLoop(d.elem, d.size, n, nu, 0), p, d.size - nu, p + n)

\* MakeRoom(p, n): the cells, _size is left to the caller
SvMakeRoom(d, p, n) ==
    LET nu == Min(d.size - p, n)
    IN  StdMoveBackward(SvRoomLoop(d.elem, d.size, n, nu, 0), p, d.size - nu, d.size)

\* mutant: FillCell that always constructs
MutSvFillCell(elem, size, pos, x) == Construct(elem, pos, x)

\* FillCell(pos, args...), end() being data() + size
SvFillCell(elem, size, pos, x) ==
    IF pos < size THEN Assign(elem, pos, x) ELSE Construct(elem, pos, x)

\* FillCell over the cells p, p+1, ... with the values of xs in order
RECURSIVE SvFillCells(_, _, _, _)
SvFillCells(elem, size, p, xs) ==
    IF xs = <<>> THEN elem
    ELSE SvFillCells(SvFillCell(elem, size, p, Head(xs)), size, p + 1, Tail(xs))

\* emplace(position, args...) and insert(position, value_type&&)
SvEmplaceOp(d, p, x) ==
    IF ~(d.size < SvCapacity) \/ ~(0 <= p /\ p <= d.size) THEN SvAbort(d)
    ELSE [d EXCEPT !.elem = SvFillCell(SvMakeRoom(d, p, 1), d.size, p, x),
                   !.size = d.size + 1]

\* insert(position, const value_type&): no check against Capacity
SvInsertOp(d, p, x) ==
    IF ~SvGoodIter(d, p) THEN SvAbort(d)
    ELSE IF d.size + 1 > SvCapacity THEN [d EXCEPT !.size = d.size + 1, !.st = "oob"]
    ELSE [d EXCEPT !.elem = SvFillCell(SvMakeRoom(d, p, 1), d.size, p, x),
                   !.size = d.size + 1]

\* the body shared by fill insert and initializer-list insert
SvInsertSeqOp(d, p, xs) ==
    IF ~(d.size + Len(xs) <= SvCapacity) \/ ~(0 <= p /\ p <= d.size) THEN SvAbort(d)
    ELSE [d EXCEPT !.elem = SvFillCells(SvMakeRoom(d, p, Len(xs)), d.size, p, xs),
                   !.size = d.size + Len(xs)]

\* insert(position, n, val)
SvInsertFillOp(d, p, n, x) == SvInsertSeqOp(d, p, Fill(n, x))

\* insert(position, initializer_list)
SvInsertIlOp(d, p, il) == SvInsertSeqOp(d, p, il)

\* insert(position, first, last) for input iterators, the range holding xs:
\* one single element insert per value, at position, position + 1, ...
RECURSIVE SvInsertRangeInOp(_, _, _)
SvInsertRangeInOp(d, p, xs) ==
    IF xs = <<>> \/ d.st # "ok" THEN d
    ELSE SvInsertRangeInOp(SvInsertOp(d, p, Head(xs)), p + 1, Tail(xs))

\* insert(position, first, last) for random access iterators, the range
\* holding xs: the check is n <= Capacity, there is none on _size + n
SvInsertRangeRaOp(d, p, xs) ==
    LET n == Len(xs)
    IN  IF ~(n <= SvCapacity) THEN SvAbort(d)
        ELSE IF d.size + n > SvCapacity
        THEN [d EXCEPT !.size = d.size + n, !.st = "oob"]
        ELSE [d EXCEPT !.elem = SvFillCells(SvMakeRoom(d, p, n), d.size, p, xs),
                       !.size = d.size + n]

\* erase(position)
SvEraseOneOp(d, p) ==
    IF ~SvGoodIter(d, p + 1) THEN SvAbort(d)
    ELSE [d EXCEPT !.elem = StdMove(Destroy(d.elem, p), p + 1, d.size, p),
                   !.size = d.size - 1]

\* erase(first, last)
SvEraseOp(d, first, last) ==
    IF first = last THEN d
    ELSE IF ~(SvGoodIter(d, first + 1) /\ SvGoodIter(d, last) /\ first < last)
    THEN SvAbort(d)
    ELSE [d EXCEPT !.elem = StdMove(DestroyRange(d.elem, first, last), last, d.size, first),
                   !.size = d.size - (last - first)]

\* resize(n, val): while (n < size()) pop_back(); while (size() < n) push_back(val)
RECURSIVE SvResizeOp(_, _, _)
SvResizeOp(d, n, x) ==
    IF d.st # "ok" THEN d
    ELSE IF n < d.size THEN SvResizeOp(SvPopBackOp(d), n, x)
    ELSE IF d.size < n THEN SvResizeOp(SvEmplaceBackOp(d, x), n, x)
    ELSE d

\* push_back(a) for every a of xs in order, used by the fill and range
\* constructors and by assign
RECURSIVE SvPushAll(_, _)
SvPushAll(d, xs) ==
    IF xs = <<>> \/ d.st # "ok" THEN d
    ELSE SvPushAll(SvEmplaceBackOp(d, Head(xs)), Tail(xs))

\* new (p++) value_type(value) for every value of xs in order
RECURSIVE SvNewEach(_, _, _)
SvNewEach(elem, p, xs) ==
    IF xs = <<>> THEN elem
    ELSE SvNewEach(Construct(elem, p, Head(xs)), p + 1, Tail(xs))

\* assign(n, val), xs being n copies of val; assign(begin, end) and
\* operator=(const this_type&), xs being the range
SvAssignOp(d, xs) == SvPushAll(SvClearOp(d), xs)

\* assign(initializer_list)
SvAssignIlOp(d, il) ==
    IF ~(Len(il) <= SvCapacity) THEN SvAbort(d) ELSE SvAssignOp(d, il)

\* mutant: a move assignment that leaves _size as clear() set it
MutSvMoveAssignOp(d, xs) ==
    [SvClearOp(d) EXCEPT !.elem = SvNewEach(@, 0, xs)]

\* operator=(this_type&&), xs being the elements of other
SvMoveAssignOp(d, xs) ==
    [SvClearOp(d) EXCEPT !.elem = SvNewEach(@, 0, xs), !.size = Len(xs)]

\* static_vector(n, value) and static_vector(begin, end) on the new vector d
SvFillConstructOp(d, xs) == SvPushAll(d, xs)

\* static_vector(initializer_list) on the new vector d
SvIlConstructOp(d, il) ==
    IF ~(Len(il) <= SvCapacity) THEN SvAbort([d EXCEPT !.size = Len(il)])
    ELSE [d EXCEPT !.elem = SvNewEach(@, 0, il), !.size = Len(il)]

\* -------------------------------------------------- static_vector actions
\* static_vector(): the default constructor
SvInit ==
    /\ sv_elem = [p \in SvCells |-> RawCell]
    /\ sv_size = 0
    /\ sv_status = "ok"
    /\ sv_abs = <<>>

\* the member function's result r becomes the state; abs is what the call
\* had to produce
SvCall(r, abs) ==
    /\ UNCHANGED <<sd_vars, mf_vars, ct_vars>>
    /\ sv_status = "ok"
    /\ sv_elem' = r.elem
    /\ sv_size' = r.size
    /\ sv_status' = r.st
    /\ sv_abs' = abs

SvNow == SvContents(SvThis)

SvPushBack(x) == SvCall(SvEmplaceBackOp(SvThis, x), Append(SvNow, x))

SvPopBack ==
    SvCall(SvPopBackOp(SvThis),
           IF sv_size = 0 THEN <<>> ELSE SubSeq(SvNow, 1, sv_size - 1))

SvClear == SvCall(SvClearOp(SvThis), <<>>)

SvEmplace(i, x) == SvCall(SvEmplaceOp(SvThis, i, x), InsertAt(SvNow, i, <<x>>))

SvInsert(i, x) == SvCall(SvInsertOp(SvThis, i, x), InsertAt(SvNow, i, <<x>>))

SvInsertFill(i, n, x) ==
    SvCall(SvInsertFillOp(SvThis, i, n, x), InsertAt(SvNow, i, Fill(n, x)))

SvInsertIl(i, xs) == SvCall(SvInsertIlOp(SvThis, i, xs), InsertAt(SvNow, i, xs))

SvEraseOne(i) == SvCall(SvEraseOneOp(SvThis, i), EraseAt(SvNow, i, i + 1))

SvErase(i, j) == SvCall(SvEraseOp(SvThis, i, j), EraseAt(SvNow, i, j))

SvResize(n, x) ==
    SvCall(SvResizeOp(SvThis, n, x),
           IF n <= sv_size THEN SubSeq(SvNow, 1, n) ELSE SvNow \o Fill(n - sv_size, x))

\* positions the callers may pass: begin() + i for i in 0 .. size()
SvPositions == 0 .. sv_size

SvNext ==
    \/ \E x \in Val : SvPushBack(x)
    \/ SvPopBack
    \/ SvClear
    \/ \E i \in SvPositions, x \in Val : SvEmplace(i, x)
    \/ \E i \in SvPositions, x \in Val : SvInsert(i, x)
    \/ \E i \in SvPositions, n \in 0..MaxN, x \in Val : SvInsertFill(i, n, x)
    \/ \E i \in SvPositions, xs \in Ranges : SvInsertIl(i, xs)
    \/ \E i \in SvPositions : i < sv_size /\ SvEraseOne(i)
    \/ \E i \in SvPositions, j \in SvPositions : i <= j /\ SvErase(i, j)
    \/ \E n \in 0..SvCapacity, x \in Val : SvResize(n, x)


\* ------------------------------ static_vector copy and move construction
\* the capacity of the vector constructed: the donor's, or one more or less
SvOtherCapacities == {SvCapacity - 1, SvCapacity, SvCapacity + 1}

\* the member initializer _size(0)
SvDstNew(cap) ==
    [live |-> TRUE, cap |-> cap, elem |-> [p \in 0 .. (cap - 1) |-> RawCell],
     size |-> 0, st |-> "ok"]

\* for (auto &m : donor) new (data() + _size++) value_type(m), or
\* value_type(std::move(m)) which leaves m moved-from
RECURSIVE SvCtorLoop(_, _, _, _)
SvCtorLoop(dst, donor, p, moves) ==
    IF p >= donor.size \/ dst.st # "ok" THEN [dst |-> dst, donor |-> donor]
    ELSE SvCtorLoop(IF dst.size \in DOMAIN dst.elem
                    THEN [dst EXCEPT !.elem = Construct(dst.elem, dst.size, donor.elem[p].v),
                                     !.size = dst.size + 1]
                    ELSE [dst EXCEPT !.size = dst.size + 1, !.st = "oob"],
                    IF moves THEN [donor EXCEPT !.elem[p].v = 0] ELSE donor,
                    p + 1, moves)

\* static_vector(const this_type &donor), static_vector(this_type &&donor),
\* and the templates for a donor of another capacity, which check the size
SvConstructOp(cap, donor, moves) ==
    IF cap # SvCapacity /\ ~(donor.size <= cap)
    THEN [dst |-> SvAbort(SvDstNew(cap)), donor |-> donor]
    ELSE SvCtorLoop(SvDstNew(cap), donor, 0, moves)

\* what moving its elements leaves of the vector o
SvMovedFrom(o) ==
    [o EXCEPT !.elem = [p \in DOMAIN @ |->
                          IF p \in 0 .. (o.size - 1) THEN [v |-> 0, c |-> @[p].c]
                          ELSE @[p]]]

\* swap(x), which is std::swap(*this, x): tmp is move constructed from a,
\* b is move assigned to a, tmp is move assigned to b, tmp is destroyed
SvSwapOp(a, b) ==
    LET t == SvCtorLoop([elem |-> [p \in SvCells |-> RawCell], size |-> 0, st |-> "ok"],
                        a, 0, TRUE)
    IN  [a |-> SvMoveAssignOp(t.donor, SvContents(b)),
         b |-> SvMoveAssignOp(SvMovedFrom(b), SvContents(t.dst))]

\* a construction from the vector under test
SvConstruct(cap, moves) ==
    LET r == SvConstructOp(cap, SvThis, moves)
    IN  /\ ct_kind = "sv"
        /\ sv_status = "ok"
        /\ ~sv_dst.live
        /\ sv_dst' = r.dst
        /\ sv_elem' = r.donor.elem
        /\ sv_size' = r.donor.size
        /\ sv_status' = r.dst.st
        /\ sv_abs' = SvContents(r.donor)
        /\ UNCHANGED <<sd_vars, mf_vars, sd_dst, ct_kind, cc>>

\* static_vector<T, cap> dst(donor)
SvCopyConstruct(cap) == SvConstruct(cap, FALSE)

\* static_vector<T, cap> dst(std::move(donor))
SvMoveConstruct(cap) == SvConstruct(cap, TRUE)

\* callers that fill a vector and construct others from it
SvCtorNext ==
    \/ \E x \in {1, MaxVal} : ct_kind = "sv" /\ ~sv_dst.live /\ sv_size < SvCapacity /\ SvPushBack(x)
    \/ ct_kind = "sv" /\ ~sv_dst.live /\ sv_size > 0 /\ SvPopBack
    \/ \E i \in SvPositions : ct_kind = "sv" /\ ~sv_dst.live /\ i < sv_size /\ SvEraseOne(i)
    \/ \E cap \in SvOtherCapacities : SvCopyConstruct(cap)
    \/ \E cap \in SvOtherCapacities : SvMoveConstruct(cap)

\* =============================================================== mf_vector
\* template parameter BlockSize of the mf_vector under test
BlockSize == 2
\* the callers stop adding elements at this size
MfMaxSize == 4

\* BlockSize of a second instantiation, the source of a move assignment
\* between vectors of different block sizes
OtherBlockSize == BlockSize + 1

\* the callers stop adding elements to the second vector at this size
MoMaxSize == BlockSize + 1

\* the quotient num/denom rounded up
Ceiling(num, denom) == (num + denom - 1) \div denom

\* &MFVectorDummyEnd
DummyEnd == 0

\* the NBlocks template parameter, BlockSize by default: the default
\* constructor reserves NBlocks + 1 entries for _blocks
NBlocks == BlockSize

\* the capacity std::vector takes when it grows from capacity cap
IndexGrowth(cap) == 2 * cap

\* no allocation is made to fail
NoLimit == 0 - 1

\* the free store hands out blocks at these addresses, far enough apart for
\* the larger of the two block sizes
Slab == OtherBlockSize + 1

\* as many blocks as the two vectors can hold at their largest
HeapBlocks == Ceiling(MfMaxSize, BlockSize) + Ceiling(MoMaxSize, BlockSize)

BlockBases == {k * Slab : k \in 1..HeapBlocks}

HeapCells == Slab .. ((HeapBlocks + 1) * Slab - 1)

\* integer division of C++, which truncates toward zero
CDiv(a, b) == IF a >= 0 THEN a \div b ELSE -((-a) \div b)

\* p is a cell of a block that new[] returned and delete[] has not taken back
MfIsLive(x, p) == \E a \in DOMAIN x.alloc : a <= p /\ p < a + x.alloc[a]

\* FRYSTL_ASSERT2 failed
MfAbort(x) == [x EXCEPT !.st = IF @ = "ok" THEN "abort" ELSE @]

\* an exception leaves the function
MfThrow(x) == [x EXCEPT !.st = IF @ = "ok" THEN "throw" ELSE @]

\* an object was accessed outside the storage the vector owns
MfUndefined(x) == [x EXCEPT !.st = IF @ = "ok" THEN "ub" ELSE @]

\* new (p) value_type(v)
MfConstruct(x, p, v) ==
    IF MfIsLive(x, p) THEN [x EXCEPT !.heap = Construct(@, p, v)]
    ELSE MfUndefined(x)

\* p->~T()
MfDestroy(x, p) ==
    IF MfIsLive(x, p) THEN [x EXCEPT !.heap = Destroy(@, p)]
    ELSE MfUndefined(x)

\* new (to) value_type(std::move(*from))
MfMoveConstruct(x, from, to) ==
    IF MfIsLive(x, from) /\ MfIsLive(x, to)
    THEN [x EXCEPT !.heap = MoveConstructCell(@, from, to)]
    ELSE MfUndefined(x)

\* *to = std::move(*from)
MfMoveAssignCell(x, from, to) ==
    IF MfIsLive(x, from) /\ MfIsLive(x, to)
    THEN [x EXCEPT !.heap = MoveAssignCell(@, from, to)]
    ELSE MfUndefined(x)

\* new storage_type[_blockSize]: the free block with the lowest address
MfNew(x) ==
    LET free == BlockBases \ DOMAIN x.alloc
    IN  CHOOSE a \in free : \A b \in free : a <= b

\* delete[] of the block at a
MfDelete(x, a) ==
    IF a \in DOMAIN x.alloc
    THEN [x EXCEPT !.alloc = [b \in DOMAIN @ \ {a} |-> @[b]],
                   !.heap = [p \in DOMAIN @ |->
                                IF p \in a .. (a + x.alloc[a] - 1)
                                THEN RawCell ELSE @[p]]]
    ELSE MfUndefined(x)

\* ---- MFV_Iterator: _block is the index of an entry of _blocks
\* mutant: an increment that stays in its block
MutItIncrement(x, it) == [it EXCEPT !.current = @ + 1]

\* Increment()
ItIncrement(x, it) ==
    LET c == it.current + 1
    IN  IF it.last = c
        THEN LET blockSize == it.last - it.first
                 f == x.blocks[it.block + 2]
             IN  [block |-> it.block + 1, first |-> f,
                  last |-> f + blockSize, current |-> f]
        ELSE [it EXCEPT !.current = c]

\* Decrement()
ItDecrement(x, it) ==
    IF it.first = it.current
    THEN LET blockSize == it.last - it.first
             f == x.blocks[it.block]
         IN  [block |-> it.block - 1, first |-> f,
              last |-> f + blockSize, current |-> f + blockSize - 1]
    ELSE [it EXCEPT !.current = @ - 1]

\* mutant: operator+= that rounds the number of blocks to cross toward zero
MutItAdd(x, it, a) ==
    LET blkSize == it.last - it.first
        offset == a + (it.current - it.first)
        nodeOffset == CDiv(offset, blkSize)
        f == x.blocks[it.block + nodeOffset + 1]
    IN  [block |-> it.block + nodeOffset, first |-> f, last |-> f + blkSize,
         current |-> f + (offset - nodeOffset * blkSize)]

\* operator+=(a), and operator+ and operator- which use it
ItAdd(x, it, a) ==
    LET blkSize == it.last - it.first
        offset == a + (it.current - it.first)
    IN  IF 0 <= offset /\ offset < blkSize
        THEN [it EXCEPT !.current = @ + a]
        ELSE LET nodeOffset == IF offset > 0 THEN CDiv(offset, blkSize)
                               ELSE CDiv(1 + offset - blkSize, blkSize)
                 b == it.block + nodeOffset
                 f == x.blocks[b + 1]
             IN  [block |-> b, first |-> f, last |-> f + blkSize,
                  current |-> f + (offset - nodeOffset * blkSize)]

\* mutant: a difference that counts the block of b as a whole one
MutItDiff(a, b) ==
    (a.block - b.block) * (a.last - a.first)
        + (a.current - a.first) + (b.last - b.current)

\* operator-(a, b)
ItDiff(a, b) ==
    (a.block - b.block - 1) * (a.last - a.first)
        + (a.current - a.first) + (b.last - b.current)

\* operator<
ItLess(a, b) ==
    a.block < b.block \/ (a.block = b.block /\ a.current < b.current)

\* operator==
ItEq(a, b) == a.current = b.current

\* Begin()
MfBegin(x) ==
    LET b == x.blocks[1]
    IN  [block |-> 0, first |-> b, last |-> b + x.bs, current |-> b]

\* End()
MfEnd(x) ==
    LET e == x.size \div x.bs
        f == x.blocks[e + 1]
    IN  [block |-> e, first |-> f, last |-> f + x.bs,
         current |-> f + (x.size % x.bs)]

\* begin() incremented n times
RECURSIVE ItSteps(_, _, _)
ItSteps(x, it, n) == IF n = 0 THEN it ELSE ItSteps(x, ItIncrement(x, it), n - 1)

\* ---- storage management
\* mutant: a Grow that takes a block as soon as the last one is full
RECURSIVE MutMfGrow(_, _)
MutMfGrow(x, newSize) ==
    IF (Len(x.blocks) - 1) * x.bs <= newSize /\ BlockBases \ DOMAIN x.alloc # {}
    THEN LET b == CHOOSE a \in BlockBases \ DOMAIN x.alloc : TRUE
             pushed == Append(x.blocks, x.blocks[Len(x.blocks)])
         IN  MutMfGrow([x EXCEPT !.alloc = (b :> x.bs) @@ @,
                                 !.blocks = [pushed EXCEPT ![Len(pushed) - 1] = b]],
                       newSize)
    ELSE x

\* Shrink() as the handler of Grow calls it; defined below
RECURSIVE MfShrinkCaught(_)

\* Grow(newSize): new storage_type[] throws when the free store is used up
\* or x.okNew allocations were made, _blocks.push_back throws when it has
\* to reallocate and x.okIdx reallocations were made; the handler calls
\* Shrink() and throws again
RECURSIVE MfGrow(_, _)

\* _blocks.push_back(_blocks.back()); *(_blocks.end() - 2) = b
MfPushBlock(x, b) ==
    LET pushed == Append(x.blocks, x.blocks[Len(x.blocks)])
    IN  [x EXCEPT !.blocks = [pushed EXCEPT ![Len(pushed) - 1] = b]]

\* the rest of one turn of the loop of Grow, block b allocated
MfGrowIndex(x, b, newSize) ==
    IF Len(x.blocks) < x.cap THEN MfGrow(MfPushBlock(x, b), newSize)
    ELSE IF x.okIdx = 0 THEN MfThrow(MfShrinkCaught(x))
    ELSE MfGrow([MfPushBlock(x, b) EXCEPT !.cap = IndexGrowth(@),
                                          !.okIdx = IF @ > 0 THEN @ - 1 ELSE @],
                newSize)

MfGrow(x, newSize) ==
    IF (Len(x.blocks) - 1) * x.bs < newSize
    THEN IF x.okNew = 0 \/ BlockBases \ DOMAIN x.alloc = {}
         THEN MfThrow(MfShrinkCaught(x))
         ELSE MfGrowIndex([x EXCEPT !.alloc = (MfNew(x) :> x.bs) @@ @,
                                    !.okNew = IF @ > 0 THEN @ - 1 ELSE @],
                          MfNew(x), newSize)
    ELSE x

\* the do-while loop of Shrink()
RECURSIVE MfShrinkLoop(_)
MfShrinkLoop(x) ==
    LET n == Len(x.blocks)
        y == [MfDelete(x, x.blocks[n - 1]) EXCEPT !.blocks = SubSeq(@, 1, n - 1)]
    IN  IF y.size + y.bs <= y.bs * (Len(y.blocks) - 1)
        THEN MfShrinkLoop(y) ELSE y

\* mutant: Shrink() that keeps the blocks
MutMfShrink(x) == x

\* Shrink()
MfShrink(x) ==
    LET cap == x.bs * (Len(x.blocks) - 1)
        y == IF x.size + x.bs <= cap
             THEN LET ender == x.blocks[Len(x.blocks)]
                      z == MfShrinkLoop(x)
                  IN  [z EXCEPT !.blocks[Len(z.blocks)] = ender]
             ELSE x
    IN  IF Ceiling(y.size, y.bs) + 1 = Len(y.blocks) THEN y ELSE MfAbort(y)

\* mutant: a handler that leaves the blocks added in place
MutMfShrinkCaught(x) == x

MfShrinkCaught(x) == MfShrink(x)

\* mutant: reserve that leaves no room for the sentinel
MutMfReserveOp(x, newCap) ==
    [x EXCEPT !.cap = IF Ceiling(newCap, x.bs) > @ THEN Ceiling(newCap, x.bs) ELSE @]

\* reserve(newCap): _blocks.reserve(nBlocks + 1) raises the capacity to
\* nBlocks + 1 when it is less
MfReserveOp(x, newCap) ==
    LET nBlocks == Ceiling(newCap, x.bs)
    IN  [x EXCEPT !.cap = IF nBlocks + 1 > @ THEN nBlocks + 1 ELSE @]

\* capacity()
MfCapacity(x) == x.bs * (x.cap - 1)

\* std::move(first, last, result) on random access iterators
RECURSIVE MfMoveLoop(_, _, _, _)
MfMoveLoop(x, first, result, n) ==
    IF n > 0
    THEN MfMoveLoop(MfMoveAssignCell(x, first.current, result.current),
                    ItIncrement(x, first), ItIncrement(x, result), n - 1)
    ELSE x

MfStdMove(x, first, last, result) ==
    MfMoveLoop(x, first, result, ItDiff(last, first))

\* std::move_backward(first, last, result) on random access iterators
RECURSIVE MfMoveBackwardLoop(_, _, _, _)
MfMoveBackwardLoop(x, last, result, n) ==
    IF n > 0
    THEN LET l == ItDecrement(x, last)
             r == ItDecrement(x, result)
         IN  MfMoveBackwardLoop(MfMoveAssignCell(x, l.current, r.current),
                                l, r, n - 1)
    ELSE x

\* mutant: the right shift done front to back
MutMfStdMoveBackward(x, first, last, result) ==
    MfStdMove(x, first, last, ItAdd(x, result, -ItDiff(last, first)))

MfStdMoveBackward(x, first, last, result) ==
    MfMoveBackwardLoop(x, last, result, ItDiff(last, first))

\* mutant: a MakeRoom that does not fill the new cells at the end
MutMfRoomLoop(x, from, to, nu) == x

\* the move construction loop of MakeRoom
RECURSIVE MfRoomLoop(_, _, _, _)
MfRoomLoop(x, from, to, nu) ==
    IF nu > 0
    THEN MfRoomLoop(MfMoveConstruct(x, from.current, to.current),
                    ItIncrement(x, from), ItIncrement(x, to), nu - 1)
    ELSE x

\* MakeRoom(pos, n): the vector after it, and the iterator it returns
MfMakeRoom(x, pos, n) ==
    LET index == ItDiff(pos, MfBegin(x))
        nu == Min(x.size - index, n)
        Grown(g) ==
            LET result == ItAdd(g, MfBegin(g), index)
                from == ItAdd(g, MfEnd(g), -nu)
                to == ItAdd(g, from, n)
                Moved(c) ==
                    MfStdMoveBackward(c, result, ItAdd(c, MfEnd(c), -nu), MfEnd(c))
                m == The({Moved(c) : c \in {MfRoomLoop(g, from, to, nu)}})
            IN  IF g.st = "throw" THEN [x |-> g, it |-> pos]
                ELSE [x |-> [m EXCEPT !.size = @ + n], it |-> result]
    IN  The({Grown(g) : g \in {MfGrow(x, x.size + n)}})

\* ---- member functions
\* push_back(t), emplace_back(args...)
MfPushBackOp(x, v) ==
    LET g == MfGrow(x, x.size + 1)
        e == MfEnd(g)
    IN  IF g.st = "throw" THEN g
        ELSE [MfConstruct(g, e.current, v) EXCEPT !.size = @ + 1]

\* pop_back()
MfPopBackOp(x) ==
    IF x.size = 0 THEN MfAbort(x)
    ELSE LET e == ItAdd(x, MfEnd(x), -1)
             back == ItAdd(x, MfEnd(x), -1)
             y == [MfDestroy(x, back.current) EXCEPT !.size = @ - 1]
         IN  IF e.first = e.current THEN MfShrink(y) ELSE y

\* for (auto& m : *this) m.~T()
RECURSIVE MfDestroyAll(_, _, _)
MfDestroyAll(x, it, end) ==
    IF ItEq(it, end) THEN x
    ELSE MfDestroyAll(MfDestroy(x, it.current), ItIncrement(x, it), end)

\* clear()
MfClearOp(x) ==
    MfShrink([MfDestroyAll(x, MfBegin(x), MfEnd(x)) EXCEPT !.size = 0])

\* emplace(position, args...), insert(position, val)
MfEmplaceOp(x, position, v) ==
    The({IF r.x.st = "throw" THEN r.x ELSE MfConstruct(r.x, r.it.current, v) :
            r \in {MfMakeRoom(x, position, 1)}})

\* for (iterator i = p; i < p + n; ++i, ++j) new (i.operator->()) value_type(*j)
RECURSIVE MfFillLoop(_, _, _, _, _)
MfFillLoop(x, i, p, n, vals) ==
    IF ItLess(i, ItAdd(x, p, n))
    THEN MfFillLoop(MfConstruct(x, i.current, Head(vals)),
                    ItIncrement(x, i), p, n, Tail(vals))
    ELSE x

\* insert(position, n, val)
MfInsertFillOp(x, position, n, val) ==
    The({IF r.x.st = "throw" THEN r.x
         ELSE MfFillLoop(r.x, r.it, r.it, n, Fill(n, val)) :
            r \in {MfMakeRoom(x, position, n)}})

\* insert(position, il)
MfInsertIlOp(x, position, il) ==
    The({IF r.x.st = "throw" THEN r.x
         ELSE MfFillLoop(r.x, r.it, r.it, Len(il), il) :
            r \in {MfMakeRoom(x, position, Len(il))}})

\* the values of the elements of [it, last)
RECURSIVE MfReadRange(_, _, _)
MfReadRange(x, it, last) ==
    IF ItEq(it, last) THEN <<>>
    ELSE <<x.heap[it.current].v>> \o MfReadRange(x, ItIncrement(x, it), last)

\* the elements from it on take the values vals by assignment
RECURSIVE MfWriteRange(_, _, _)
MfWriteRange(x, it, vals) ==
    IF vals = <<>> THEN x
    ELSE MfWriteRange(IF MfIsLive(x, it.current)
                      THEN [x EXCEPT !.heap = Assign(@, it.current, Head(vals))]
                      ELSE MfUndefined(x),
                      ItIncrement(x, it), Tail(vals))

\* std::rotate(first, middle, last): the element at middle becomes the
\* first of the range and the one before it the last, by swaps
MfRotate(x, first, middle, last) ==
    MfWriteRange(x, first,
                 MfReadRange(x, middle, last) \o MfReadRange(x, first, middle))

\* while (first != last) push_back(*first++)
RECURSIVE MfPushLoopSeq(_, _)
MfPushLoopSeq(x, vals) ==
    IF vals = <<>> \/ x.st = "throw" THEN x
    ELSE MfPushLoopSeq(MfPushBackOp(x, Head(vals)), Tail(vals))

\* insert(position, first, last), the range holding vals; the handler of
\* std::bad_alloc sets _size back, calls Shrink() and lets the function
\* return
MfInsertRangeOp(x, position, vals) ==
    LET posIndex == ItDiff(position, MfBegin(x))
        oldSize == x.size
        a == MfPushLoopSeq(x, vals)
    IN  IF a.st = "throw"
        THEN MfShrink([a EXCEPT !.st = "ok", !.size = oldSize])
        ELSE MfRotate(a, ItAdd(a, MfBegin(a), posIndex),
                      ItAdd(a, MfBegin(a), oldSize), MfEnd(a))

\* for (iterator it = f; it < l; ++it) it->~value_type()
RECURSIVE MfDestroyLoop(_, _, _)
MfDestroyLoop(x, it, l) ==
    IF ItLess(it, l)
    THEN MfDestroyLoop(MfDestroy(x, it.current), ItIncrement(x, it), l)
    ELSE x

\* erase(first, last)
MfEraseOp(x, first, last) ==
    IF ItLess(first, last)
    THEN LET d == MfDestroyLoop(x, first, last)
             m == MfStdMove(d, last, MfEnd(d), first)
         IN  MfShrink([m EXCEPT !.size = @ - ItDiff(last, first)])
    ELSE x

\* the iterator erase(first, last) returns: f, made from first before the
\* elements are moved and Shrink() is called
MfEraseIt(x, first, last) == first

\* erase(position)
MfEraseOneOp(x, position) == MfEraseOp(x, position, ItAdd(x, position, 1))

\* resize(n, val)
RECURSIVE MfResizeOp(_, _, _)
MfResizeOp(x, n, val) ==
    IF x.st # "ok" THEN x
    ELSE IF n < x.size THEN MfResizeOp(MfPopBackOp(x), n, val)
    ELSE IF x.size < n THEN MfResizeOp(MfPushBackOp(x, val), n, val)
    ELSE x

\* while (size() < n) push_back(val)
RECURSIVE MfPushLoop(_, _, _)
MfPushLoop(x, n, val) ==
    IF x.size < n THEN MfPushLoop(MfPushBackOp(x, val), n, val) ELSE x

\* assign(n, val)
MfAssignOp(x, n, val) == MfPushLoop(MfClearOp(x), n, val)

\* operator[](index): the value read, 0 where no element was ever stored
MfAt(x, index) ==
    LET b == (index \div x.bs) + 1
        p == x.blocks[b] + (index % x.bs)
    IN  IF b \in DOMAIN x.blocks /\ MfIsLive(x, p) THEN x.heap[p].v ELSE 0

\* at(index): Verify(index < _size), then operator[](index)
MfAtOp(x, index) ==
    IF index < x.size THEN [st |-> "ok", v |-> MfAt(x, index)]
    ELSE [st |-> "throw", v |-> 0]

MfContents(x) == [i \in 1..x.size |-> MfAt(x, i - 1)]

\* ---- functions of two vectors: w.a is *this, w.b is other
MfView(w, v) ==
    [blocks |-> v.blocks, size |-> v.size, bs |-> v.bs, cap |-> v.cap,
     heap |-> w.heap, alloc |-> w.alloc, st |-> w.st,
     okNew |-> NoLimit, okIdx |-> NoLimit]

MfPutA(w, x) ==
    [w EXCEPT !.a = [blocks |-> x.blocks, size |-> x.size, bs |-> x.bs,
                     cap |-> x.cap],
              !.heap = x.heap, !.alloc = x.alloc, !.st = x.st]

MfPutB(w, x) ==
    [w EXCEPT !.b = [blocks |-> x.blocks, size |-> x.size, bs |-> x.bs,
                     cap |-> x.cap],
              !.heap = x.heap, !.alloc = x.alloc, !.st = x.st]

\* mutant: swap that copies the index and the size of other
MutMfSwapOp(w) == [w EXCEPT !.a.blocks = w.b.blocks, !.a.size = w.b.size]

\* swap(other)
MfSwapOp(w) ==
    [w EXCEPT !.a.blocks = w.b.blocks, !.a.size = w.b.size, !.a.cap = w.b.cap,
              !.b.blocks = w.a.blocks, !.b.size = w.a.size, !.b.cap = w.a.cap]

\* operator=(mf_vector&& other)
MfMoveAssignOp(w) == MfSwapOp(MfPutA(w, MfClearOp(MfView(w, w.a))))

\* mf_vector(mf_vector&& other): w.a is the vector constructed, its state
\* before the call is ignored
MfMoveConstructOp(w) ==
    MfSwapOp([w EXCEPT !.a.blocks = <<DummyEnd>>, !.a.size = 0,
                       !.a.cap = NBlocks + 1])

\* for (auto& val : other) emplace_back(std::move(val)): the argument of
\* emplace_back is taken by value, which leaves val moved-from
RECURSIVE MfMoveEach(_, _, _)
MfMoveEach(w, it, end) ==
    IF ItEq(it, end) THEN w
    ELSE LET o == MfView(w, w.b)
             val == IF MfIsLive(o, it.current) THEN o.heap[it.current].v ELSE 0
             taken == IF MfIsLive(o, it.current)
                      THEN [w EXCEPT !.heap[it.current].v = 0]
                      ELSE [w EXCEPT !.st = IF @ = "ok" THEN "ub" ELSE @]
         IN  MfMoveEach(MfPutA(taken, MfPushBackOp(MfView(taken, taken.a), val)),
                        ItIncrement(o, it), end)

\* for (auto& value : other) push_back(value)
RECURSIVE MfCopyEach(_, _, _)
MfCopyEach(w, it, end) ==
    IF ItEq(it, end) THEN w
    ELSE LET o == MfView(w, w.b)
             value == IF MfIsLive(o, it.current) THEN o.heap[it.current].v ELSE 0
             read == IF MfIsLive(o, it.current) THEN w
                     ELSE [w EXCEPT !.st = IF @ = "ok" THEN "ub" ELSE @]
         IN  MfCopyEach(MfPutA(read, MfPushBackOp(MfView(read, read.a), value)),
                        ItIncrement(o, it), end)

\* mutant: a copy that shares the blocks of other
MutMfCopyConstructOp(w) == [w EXCEPT !.a.blocks = w.b.blocks, !.a.size = w.b.size]

\* mf_vector(const mf_vector& other) and the template for another block
\* size: w.a is the vector constructed, its state before the call is ignored
MfCopyConstructOp(w) ==
    LET n == [w EXCEPT !.a.blocks = <<DummyEnd>>, !.a.size = 0,
                       !.a.cap = NBlocks + 1]
        o == MfView(n, n.b)
    IN  MfCopyEach(n, MfBegin(o), MfEnd(o))

\* pOther->block_size() where pOther is
\* reinterpret_cast<mf_vector*>(&other): block_size() returns the static
\* member _blockSize of the pointer's class, which is the class of *this
MfPOtherBlockSize(w) == w.a.bs

\* template <unsigned B, size_t N> operator=(mf_vector<T, B, N>&& other)
MfMoveAssignOtherOp(w) ==
    LET c == MfPutA(w, MfClearOp(MfView(w, w.a)))
    IN  IF c.a.bs = MfPOtherBlockSize(c) THEN MfSwapOp(c)
        ELSE LET o == MfView(c, c.b)
                 m == MfMoveEach(c, MfBegin(o), MfEnd(o))
             IN  MfPutB(m, MfClearOp(MfView(m, m.b)))

\* ---- the callers
MfThis ==
    [blocks |-> mf_blocks, size |-> mf_size, bs |-> BlockSize, cap |-> mf_cap,
     heap |-> mf_heap, alloc |-> mf_alloc, st |-> mf_status,
     okNew |-> NoLimit, okIdx |-> NoLimit]

MfOther ==
    [blocks |-> mo_blocks, size |-> mo_size, bs |-> mo_bs, cap |-> mo_cap,
     heap |-> mf_heap, alloc |-> mf_alloc, st |-> mf_status,
     okNew |-> NoLimit, okIdx |-> NoLimit]

MfWorld ==
    [a |-> [blocks |-> mf_blocks, size |-> mf_size, bs |-> BlockSize,
            cap |-> mf_cap],
     b |-> [blocks |-> mo_blocks, size |-> mo_size, bs |-> mo_bs,
            cap |-> mo_cap],
     heap |-> mf_heap, alloc |-> mf_alloc, st |-> mf_status]

\* the elements now, front to back
MfNow == MfContents(MfThis)

MoNow == MfContents(MfOther)

\* mf_vector(): both vectors default constructed, with NBlocks being nb
MfInitOf(bs, nb) ==
    /\ mf_blocks = <<DummyEnd>>
    /\ mf_size = 0
    /\ mo_blocks = <<DummyEnd>>
    /\ mo_size = 0
    /\ mo_bs = bs
    /\ mf_heap = [p \in HeapCells |-> RawCell]
    /\ mf_alloc = [a \in {} |-> 0]
    /\ mf_status = "ok"
    /\ mf_abs = <<>>
    /\ mo_abs = <<>>
    /\ mf_cap = nb + 1
    /\ mo_cap = nb + 1

MfInitWith(bs) == MfInitOf(bs, NBlocks)

MfInit == MfInitWith(BlockSize)

\* a call of a member function of the vector under test
MfCall(x, abs) ==
    /\ UNCHANGED <<sd_vars, sv_vars, ct_vars>>
    /\ mf_status = "ok"
    /\ mf_blocks' = x.blocks
    /\ mf_size' = x.size
    /\ mf_heap' = x.heap
    /\ mf_alloc' = x.alloc
    /\ mf_status' = x.st
    /\ mf_abs' = abs
    /\ mo_abs' = MoNow
    /\ mf_cap' = x.cap
    /\ UNCHANGED <<mo_blocks, mo_size, mo_bs, mo_cap>>

\* a call of a member function of the second vector
MoCall(x, abs) ==
    /\ UNCHANGED <<sd_vars, sv_vars, ct_vars>>
    /\ mf_status = "ok"
    /\ mo_blocks' = x.blocks
    /\ mo_size' = x.size
    /\ mf_heap' = x.heap
    /\ mf_alloc' = x.alloc
    /\ mf_status' = x.st
    /\ mo_abs' = abs
    /\ mf_abs' = MfNow
    /\ mo_cap' = x.cap
    /\ UNCHANGED <<mf_blocks, mf_size, mo_bs, mf_cap>>

\* a call that takes the second vector as its argument
MfCall2(w, absA, absB) ==
    /\ UNCHANGED <<sd_vars, sv_vars, ct_vars>>
    /\ mf_status = "ok"
    /\ mf_blocks' = w.a.blocks
    /\ mf_size' = w.a.size
    /\ mo_blocks' = w.b.blocks
    /\ mo_size' = w.b.size
    /\ mf_heap' = w.heap
    /\ mf_alloc' = w.alloc
    /\ mf_status' = w.st
    /\ mf_abs' = absA
    /\ mo_abs' = absB
    /\ mf_cap' = w.a.cap
    /\ mo_cap' = w.b.cap
    /\ UNCHANGED mo_bs

\* begin() + i
MfPos(i) == ItAdd(MfThis, MfBegin(MfThis), i)

MfPushBack(v) ==
    mf_size < MfMaxSize /\ MfCall(MfPushBackOp(MfThis, v), Append(MfNow, v))

MfPopBack ==
    mf_size > 0 /\ MfCall(MfPopBackOp(MfThis), SubSeq(MfNow, 1, mf_size - 1))

MfClear == MfCall(MfClearOp(MfThis), <<>>)

MfEmplace(i, v) ==
    /\ mf_size < MfMaxSize
    /\ MfCall(MfEmplaceOp(MfThis, MfPos(i), v), InsertAt(MfNow, i, <<v>>))

MfInsertFill(i, n, v) ==
    /\ mf_size + n <= MfMaxSize
    /\ MfCall(MfInsertFillOp(MfThis, MfPos(i), n, v),
              InsertAt(MfNow, i, Fill(n, v)))

MfInsertIl(i, il) ==
    /\ mf_size + Len(il) <= MfMaxSize
    /\ MfCall(MfInsertIlOp(MfThis, MfPos(i), il), InsertAt(MfNow, i, il))

MfInsertRange(i, vals) ==
    /\ mf_size + Len(vals) <= MfMaxSize
    /\ MfCall(MfInsertRangeOp(MfThis, MfPos(i), vals), InsertAt(MfNow, i, vals))

MfEraseOne(i) ==
    MfCall(MfEraseOneOp(MfThis, MfPos(i)), EraseAt(MfNow, i, i + 1))

MfErase(i, j) ==
    MfCall(MfEraseOp(MfThis, MfPos(i), MfPos(j)), EraseAt(MfNow, i, j))

MfResize(n, v) ==
    MfCall(MfResizeOp(MfThis, n, v),
           IF n <= mf_size THEN SubSeq(MfNow, 1, n)
           ELSE MfNow \o Fill(n - mf_size, v))

MfAssign(n, v) == MfCall(MfAssignOp(MfThis, n, v), Fill(n, v))

MoPushBack(v) ==
    mo_size < MoMaxSize /\ MoCall(MfPushBackOp(MfOther, v), Append(MoNow, v))

MfSwap ==
    /\ mf_size <= MoMaxSize
    /\ mo_bs = BlockSize
    /\ MfCall2(MfSwapOp(MfWorld), MoNow, MfNow)

\* *this = std::move(other)
MfMoveAssign ==
    MfCall2(IF mo_bs = BlockSize THEN MfMoveAssignOp(MfWorld)
            ELSE MfMoveAssignOtherOp(MfWorld),
            MoNow, <<>>)

\* the second vector goes out of scope: ~mf_vector() is clear()
MoClear == MoCall(MfClearOp(MfOther), <<>>)

\* mf_vector other(std::move(*this)), where no second vector is in scope
MoMoveConstruct ==
    LET w == MfMoveConstructOp([MfWorld EXCEPT !.a = MfWorld.b, !.b = MfWorld.a])
    IN  /\ mo_size = 0
        /\ mo_blocks = <<DummyEnd>>
        /\ mo_bs = BlockSize
        /\ MfCall2([w EXCEPT !.a = w.b, !.b = w.a], <<>>, MfNow)

\* mf_vector<T, mo_bs> other(*this), where no second vector is in scope
MoCopyConstruct ==
    LET w == MfCopyConstructOp([MfWorld EXCEPT !.a = MfWorld.b, !.b = MfWorld.a])
    IN  /\ mo_size = 0
        /\ mo_blocks = <<DummyEnd>>
        /\ MfCall2([w EXCEPT !.a = w.b, !.b = w.a], MfNow, MfNow)

MfPositions == 0 .. mf_size

\* ---- calls during which allocations fail
\* the NBlocks template parameter of a vector that has to reallocate its
\* block index for its second block
SmallNBlocks == 1

\* the largest size of that vector: two full blocks and an element
MfGrowMaxSize == 2 * BlockSize + 1

\* the largest argument of reserve: a block more than the vector ever needs
MaxReserve == MfGrowMaxSize + BlockSize

\* what fails during a call: nothing, the first new[], the second new[],
\* the first reallocation of _blocks
NoFailure == [new |-> NoLimit, idx |-> NoLimit]

Failures ==
    {NoFailure, [new |-> 0, idx |-> NoLimit], [new |-> 1, idx |-> NoLimit],
     [new |-> NoLimit, idx |-> 0]}

MfFailing(x, f) == [x EXCEPT !.okNew = f.new, !.okIdx = f.idx]

\* the sequence a call has to leave: as before when it threw
MfAbsAfter(r, abs) == IF r.st = "throw" THEN MfNow ELSE abs

MfPushBackF(v, f) ==
    LET r == MfPushBackOp(MfFailing(MfThis, f), v)
    IN  mf_size < MfGrowMaxSize /\ MfCall(r, MfAbsAfter(r, Append(MfNow, v)))

MfEmplaceF(i, v, f) ==
    LET r == MfEmplaceOp(MfFailing(MfThis, f), MfPos(i), v)
    IN  mf_size < MfGrowMaxSize /\ MfCall(r, MfAbsAfter(r, InsertAt(MfNow, i, <<v>>)))

MfInsertFillF(i, n, v, f) ==
    LET r == MfInsertFillOp(MfFailing(MfThis, f), MfPos(i), n, v)
    IN  /\ mf_size + n <= MfGrowMaxSize
        /\ MfCall(r, MfAbsAfter(r, InsertAt(MfNow, i, Fill(n, v))))

MfInsertIlF(i, il, f) ==
    LET r == MfInsertIlOp(MfFailing(MfThis, f), MfPos(i), il)
    IN  /\ mf_size + Len(il) <= MfGrowMaxSize
        /\ MfCall(r, MfAbsAfter(r, InsertAt(MfNow, i, il)))

\* a range insert has to leave the vector as it was when it failed
MfInsertRangeF(i, vals, f) ==
    LET r == MfInsertRangeOp(MfFailing(MfThis, f), MfPos(i), vals)
    IN  /\ mf_size + Len(vals) <= MfGrowMaxSize
        /\ MfCall(r, IF r.size = mf_size + Len(vals)
                      THEN InsertAt(MfNow, i, vals) ELSE MfNow)

MfReserve(n) == MfCall(MfReserveOp(MfThis, n), MfNow)

\* the caller handles the exception and carries on
MfCatch ==
    /\ mf_status = "throw"
    /\ mf_status' = "ok"
    /\ UNCHANGED <<sd_vars, sv_vars, ct_vars, mf_blocks, mf_size, mo_blocks, mo_size,
                   mo_bs, mf_heap, mf_alloc, mf_abs, mo_abs, mf_cap, mo_cap>>

\* callers of one vector that runs out of memory now and then
MfGrowNext ==
    \/ \E f \in Failures : MfPushBackF(1, f)
    \/ \E f \in Failures : MfEmplaceF(0, MaxVal, f)
    \/ \E i \in MfPositions, n \in 0 .. (BlockSize + 1), f \in Failures :
          MfInsertFillF(i, n, MaxVal, f)
    \/ \E i \in MfPositions, f \in Failures : MfInsertIlF(i, <<1, MaxVal>>, f)
    \/ \E i \in MfPositions, f \in Failures : MfInsertRangeF(i, <<MaxVal, 1>>, f)
    \/ \E n \in 0 .. MaxReserve : MfReserve(n)
    \/ MfPopBack
    \/ MfClear
    \/ MfCatch

\* callers of one vector, passing values from V
MfCalls(V) ==
    \/ \E v \in V : MfPushBack(v)
    \/ MfPopBack
    \/ MfClear
    \/ \E i \in MfPositions, v \in V : MfEmplace(i, v)
    \/ \E i \in MfPositions, n \in 0..MaxN, v \in V : MfInsertFill(i, n, v)
    \/ \E i \in MfPositions, il \in SeqsUpTo(V, MaxN) : MfInsertIl(i, il)
    \/ \E i \in MfPositions : i < mf_size /\ MfEraseOne(i)
    \/ \E i \in MfPositions, j \in MfPositions : i <= j /\ MfErase(i, j)
    \/ \E n \in 0..MfMaxSize, v \in V : MfResize(n, v)
    \/ \E n \in 0..MfMaxSize, v \in V : MfAssign(n, v)

MfNext ==
    \/ MfCalls(Val)
    \/ \E i \in MfPositions, vals \in SeqsUpTo(Val, MaxN) : MfInsertRange(i, vals)

\* callers of one vector and of a second one of the same class; they pass
\* one value only
MfPairNext ==
    \/ MfCalls({MaxVal})
    \/ MoPushBack(MaxVal)
    \/ MfSwap
    \/ MfMoveAssign

\* callers that move a vector into another one of the same class; what they
\* push tells the two vectors apart
MfTransferNext ==
    \/ MfPushBack(1)
    \/ MfPopBack
    \/ MoPushBack(MaxVal)
    \/ MoClear
    \/ MfMoveAssign
    \/ MoMoveConstruct

\* callers that fill a vector and construct others from it
MfCtorNext ==
    \/ \E v \in {1, MaxVal} : ct_kind = "mf" /\ MfPushBack(v)
    \/ ct_kind = "mf" /\ MfPopBack
    \/ ct_kind = "mf" /\ MoCopyConstruct
    \/ ct_kind = "mf" /\ mo_size > 0 /\ MoClear

\* callers that construct containers from containers
CtorNext == SdCtorNext \/ SvCtorNext \/ MfCtorNext

\* callers that move a vector into one of another block size
MfMoveNext ==
    \/ \E v \in Val : MfPushBack(v)
    \/ \E v \in Val : MoPushBack(v)
    \/ MfMoveAssign


\* ---- one thread in push_back, other threads reading
\* a memory location: the members _M_start ("data") and _M_finish ("end") of
\* _blocks, _size ("size"), the entry a of _blocks ("slot", counted from 0),
\* the element cell at address a ("cell")
Loc(k, a) == [k |-> k, a |-> a]

\* no iterator
NoIt == [block |-> 0, first |-> 0, last |-> 0, current |-> 0]

\* no push_back in progress: pc is the writer's position, b the block it
\* got from new[], writes the locations it has written in this call, reads
\* the locations of the last access of a reader, it a reader's iterator and
\* j the index it is on (-1: none), size0 the size when the call began,
\* realloc whether the call reallocated _blocks
CcIdle ==
    [pc |-> "idle", b |-> 0, writes |-> {}, reads |-> {}, it |-> NoIt,
     j |-> 0 - 1, size0 |-> 0, realloc |-> FALSE]

\* a step of the writer: the vector becomes x
CcSet(x, c) ==
    /\ mf_status = "ok"
    /\ mf_blocks' = x.blocks
    /\ mf_size' = x.size
    /\ mf_heap' = x.heap
    /\ mf_alloc' = x.alloc
    /\ mf_status' = x.st
    /\ mf_cap' = x.cap
    /\ cc' = c
    /\ UNCHANGED <<sd_vars, sv_vars, sd_dst, sv_dst, ct_kind, mo_blocks, mo_size,
                   mo_bs, mo_cap, mf_abs, mo_abs>>

\* push_back(1) is called
CcStart ==
    /\ cc.pc = "idle"
    /\ mf_size < MfGrowMaxSize
    /\ CcSet(MfThis, [CcIdle EXCEPT !.pc = "grow", !.size0 = mf_size])

\* Grow: the test of the while loop, and new storage_type[_blockSize]
CcGrowTest ==
    /\ cc.pc = "grow"
    /\ IF (Len(mf_blocks) - 1) * BlockSize < mf_size + 1
       THEN LET b == MfNew(MfThis)
            IN  CcSet([MfThis EXCEPT !.alloc = (b :> BlockSize) @@ @],
                      [cc EXCEPT !.pc = "push", !.b = b])
       ELSE CcSet(MfThis, [cc EXCEPT !.pc = "construct"])

\* Grow: _blocks.push_back(_blocks.back()), which writes the entry after
\* the last and _M_finish, or, when size() == capacity(), moves every entry
\* to new storage
CcPushIndex ==
    LET n == Len(mf_blocks)
        x == [MfThis EXCEPT !.blocks = Append(@, @[n])]
    IN  /\ cc.pc = "push"
        /\ IF n < mf_cap
           THEN CcSet(x, [cc EXCEPT !.pc = "set",
                                    !.writes = @ \cup {Loc("slot", n), Loc("end", 0)}])
           ELSE CcSet([x EXCEPT !.cap = IndexGrowth(@)],
                      [cc EXCEPT !.pc = "set", !.realloc = TRUE,
                                 !.writes = @ \cup {Loc("data", 0), Loc("end", 0)}
                                              \cup {Loc("slot", k) : k \in 0 .. n}])

\* Grow: *(_blocks.end() - 2) = b
CcSetBlock ==
    LET n == Len(mf_blocks)
    IN  /\ cc.pc = "set"
        /\ CcSet([MfThis EXCEPT !.blocks[n - 1] = cc.b],
                 [cc EXCEPT !.pc = "grow", !.writes = @ \cup {Loc("slot", n - 2)}])

\* iterator e = End(); new (e.operator->()) value_type(t)
CcConstruct ==
    LET e == MfEnd(MfThis)
    IN  /\ cc.pc = "construct"
        /\ CcSet(MfConstruct(MfThis, e.current, 1),
                 [cc EXCEPT !.pc = "inc", !.writes = @ \cup {Loc("cell", e.current)}])

\* ++_size, and the return
CcIncSize ==
    /\ cc.pc = "inc"
    /\ CcSet([MfThis EXCEPT !.size = @ + 1],
             [cc EXCEPT !.pc = "idle", !.it = NoIt, !.j = 0 - 1,
                        !.writes = @ \cup {Loc("size", 0)}])

\* a step of a reader while the writer is in push_back
CcRead(c) ==
    /\ mf_status = "ok"
    /\ cc.pc # "idle"
    /\ cc' = c
    /\ UNCHANGED <<sd_vars, sv_vars, mf_vars, sd_dst, sv_dst, ct_kind>>

\* mutant: the locations operator[] reads when FRYSTL_ASSERT2 is compiled in
MutMfAtReads(x, index) ==
    {Loc("size", 0), Loc("data", 0), Loc("slot", index \div x.bs),
     Loc("cell", x.blocks[(index \div x.bs) + 1] + (index % x.bs))}

\* the locations operator[](index) reads, FRYSTL_ASSERT2 being empty:
\* *(_blocks[index / BlockSize] + index % BlockSize)
MfAtReads(x, index) ==
    {Loc("data", 0), Loc("slot", index \div x.bs),
     Loc("cell", x.blocks[(index \div x.bs) + 1] + (index % x.bs))}

\* operator[](i) of an element that was there when push_back began
CcReadAt(i) ==
    /\ i < cc.size0
    /\ CcRead([cc EXCEPT !.reads = MfAtReads(MfThis, i)])

\* begin(), the vector having had an element when push_back began
CcBegin ==
    /\ cc.size0 > 0
    /\ CcRead([cc EXCEPT !.it = MfBegin(MfThis), !.j = 0,
                         !.reads = {Loc("data", 0), Loc("slot", 0)}])

\* ++it, onto an element that was there when push_back began
CcIncrement ==
    /\ cc.j >= 0
    /\ cc.j + 1 < cc.size0
    /\ CcRead([cc EXCEPT !.it = ItIncrement(MfThis, @), !.j = @ + 1,
                         !.reads = IF cc.it.current + 1 = cc.it.last
                                   THEN {Loc("slot", cc.it.block + 1)} ELSE {}])

\* it += k, onto an element that was there when push_back began
CcAdd(k) ==
    LET r == ItAdd(MfThis, cc.it, k)
    IN  /\ cc.j >= 0
        /\ 0 <= cc.j + k
        /\ cc.j + k < cc.size0
        /\ CcRead([cc EXCEPT !.it = r, !.j = @ + k,
                             !.reads = IF r.block # cc.it.block
                                       THEN {Loc("slot", r.block)} ELSE {}])

\* *it
CcDeref ==
    /\ cc.j >= 0
    /\ CcRead([cc EXCEPT !.reads = {Loc("cell", cc.it.current)}])

\* a writer that appends, pops and reserves, and readers of the elements
\* that are there when an append begins
CcNext ==
    \/ CcStart
    \/ CcGrowTest
    \/ CcPushIndex
    \/ CcSetBlock
    \/ CcConstruct
    \/ CcIncSize
    \/ \E i \in 0 .. (MfGrowMaxSize - 1) : CcReadAt(i)
    \/ CcBegin
    \/ CcIncrement
    \/ \E k \in (0 - MfGrowMaxSize) .. MfGrowMaxSize : k # 0 /\ CcAdd(k)
    \/ CcDeref
    \/ cc.pc = "idle" /\ MfPopBack
    \/ \E n \in 0 .. MaxReserve : cc.pc = "idle" /\ MfReserve(n)

\* ========================================================= specifications
\* nothing under construction
CtInit(kinds) ==
    sd_dst = NoDst /\ sv_dst = NoDst /\ ct_kind \in kinds /\ cc = CcIdle

Init == SdInit /\ SvInit /\ MfInit /\ CtInit({"none"})

\* static_deque: push and pop, each push issued while size() < _trueCap
SpecSDPush == Init /\ [][SdPushNext]_vars

\* static_deque: callers that keep size() within Capacity
SpecSD == Init /\ [][SdNext]_vars

\* static_deque: callers that use the whole buffer
SpecSDWide == Init /\ [][SdWideNext]_vars

\* static_vector
SpecSV == Init /\ [][SvNext]_vars

\* mf_vector
SpecMFV == Init /\ [][MfNext]_vars

\* mf_vector, and a second mf_vector of the same block size
SpecMFVPair == Init /\ [][MfPairNext]_vars

\* mf_vector, and a second mf_vector of another block size
InitMove == SdInit /\ SvInit /\ MfInitWith(OtherBlockSize) /\ CtInit({"none"})

SpecMFVMove == InitMove /\ [][MfMoveNext]_vars

\* mf_vector, and a second mf_vector of the same block size it is moved to
\* and from
\* mf_vector<T, BlockSize, SmallNBlocks>
InitGrow == SdInit /\ SvInit /\ MfInitOf(BlockSize, SmallNBlocks) /\ CtInit({"none"})

SpecMFVGrow == InitGrow /\ [][MfGrowNext]_vars

\* mf_vector<T, BlockSize, SmallNBlocks> with a writer and readers
SpecMFVConc == InitGrow /\ [][CcNext]_vars

SpecMFVTransfer == Init /\ [][MfTransferNext]_vars

\* a container of one of the three kinds, and containers constructed from it
InitCtor ==
    /\ SdInit
    /\ SvInit
    /\ \E bs \in {BlockSize, OtherBlockSize} : MfInitWith(bs)
    /\ CtInit({"sd", "sv", "mf"})

SpecCtor == InitCtor /\ [][CtorNext]_vars

\* ================================================================= claims
\* the deque's elements now, front to back
SdNow == SdContents(SdThis)

C5_WindowInBuffer ==
    /\ FirstSpace <= sd_begin
    /\ sd_begin <= sd_end
    /\ sd_end <= FirstSpace + TrueCap
    /\ sd_status # "oob"

\* C6: a push on a deque whose size() is already 2*Capacity-1 is reported as
\* a contract violation (the program aborts) before any cell outside the
\* buffer is written.
C6_OverflowReported ==
    [][(/\ sd_end - sd_begin = TrueCap
        /\ \E x \in Val : SdPushFront(x) \/ SdPushBack(x))
       => sd_status' = "abort"]_vars

\* C7: after one element has been added to an empty deque by either push,
\* Capacity-1 cells are free on each side of it, and Capacity-1 further
\* push_front calls and Capacity-1 further push_back calls complete without
\* re-centering and without overflow.
C7_RoomOnBothSides ==
    (/\ sd_hist.pure
     /\ sd_hist.first # "none"
     /\ sd_hist.pf <= Capacity - 1
     /\ sd_hist.pb <= Capacity - 1)
    => /\ sd_status = "ok"
       /\ ~sd_hist.everSlid
       /\ (sd_hist.pf = 0 /\ sd_hist.pb = 0)
            => /\ sd_begin - FirstSpace = Capacity - 1
               /\ PastLastSpace - sd_end = Capacity - 1

\* a call of insert in one of its forms
SdAnyInsert ==
    \/ \E i \in SdPositions, x \in Val : SdInsert(i, x)
    \/ \E i \in SdPositions, n \in 0..MaxN, x \in Val : SdInsertFill(i, n, x)
    \/ \E i \in SdPositions, xs \in Ranges :
          SdInsertIl(i, xs) \/ SdInsertRangeRa(i, xs) \/ SdInsertRangeIn(i, xs)

\* C8: insert of n elements at any position in [begin(), end()] completes
\* without a contract violation whenever size() + n <= 2*Capacity-1 (sd_abs'
\* has size() + n elements).
C8_InsertFits ==
    [][(SdAnyInsert /\ Len(sd_abs') <= TrueCap) => sd_status' = "ok"]_vars

\* C9: range insert at index i produces old[0..i), then the inserted range
\* in its order, then old[i..size), for input-iterator sources and for
\* random-access sources.
C9_RangeInsertOrder ==
    [][(/\ \E i \in SdPositions, xs \in Ranges :
              SdInsertRangeRa(i, xs) \/ SdInsertRangeIn(i, xs)
        /\ sd_status' = "ok")
       => SdNow' = sd_abs']_vars

\* C2: static_vector refines an abstract sequence.  While no contract check
\* has fired and no cell past Capacity was written, size() is the length of
\* the abstract sequence and operator[](i) returns its element i after every
\* call; for a fill insert of n values at index i the abstract result is the
\* old elements 0..i-1, n copies of the value, then the old elements i.. .
C2_VectorRefines ==
    sv_status = "ok" =>
        /\ sv_size = Len(sv_abs)
        /\ sv_size <= SvCapacity
        /\ \A i \in 0 .. (Len(sv_abs) - 1) : SvAt(SvThis, i) = sv_abs[i + 1]

\* C2 witness: the vector is full and holds what the callers stored, its
\* first and last elements equal and different from the ones between, as a
\* fill insert in the middle leaves it
C2_Witness ==
    /\ sv_status = "ok"
    /\ sv_size = SvCapacity
    /\ sv_abs = SvNow
    /\ sv_abs[1] = sv_abs[sv_size]
    /\ \A i \in 2 .. (sv_size - 1) : sv_abs[i] # sv_abs[1]

\* C1: mf_vector refines an abstract sequence.  After every call of
\* push_back, pop_back on a non-empty vector, emplace, fill insert,
\* initializer-list insert, erase of one element or of a range, resize,
\* assign and clear, size() is the length of the abstract sequence and
\* operator[](i) returns its element i, also when the call moved elements
\* from one block to another.
C1_MfVectorRefines ==
    mf_status = "ok" =>
        /\ mf_size = Len(mf_abs)
        /\ \A i \in 0 .. (Len(mf_abs) - 1) : MfAt(MfThis, i) = mf_abs[i + 1]

\* C1 witness: the vector fills more than one block and its first element
\* sits in a cell that an erase destroyed and then refilled by a move from
\* the cell after it, while the elements are the ones the callers stored
C1_Witness ==
    /\ mf_status = "ok"
    /\ mf_size > BlockSize
    /\ ~mf_heap[mf_blocks[1]].c
    /\ mf_abs = MfNow
    /\ \A i \in 1 .. mf_size : mf_abs[i] \in Val
    /\ \E i \in 1 .. mf_size : mf_abs[i] # mf_abs[1]

\* C4: after every call on an mf_vector, swap and move assignment with a
\* vector of the same block size included, the block index has
\* ceil(size()/BlockSize) + 1 entries, the last one is the address of the
\* sentinel, the entries before it are distinct blocks of BlockSize cells
\* that the vector owns, and so the cells it owns exceed size() by fewer than
\* BlockSize.
C4_BlockIndex ==
    mf_status = "ok" =>
        /\ Len(mf_blocks) = Ceiling(mf_size, BlockSize) + 1
        /\ mf_blocks[Len(mf_blocks)] = DummyEnd
        /\ \A k \in 1 .. (Len(mf_blocks) - 1) :
              /\ mf_blocks[k] \in DOMAIN mf_alloc
              /\ mf_alloc[mf_blocks[k]] = BlockSize
              /\ \A j \in 1 .. (Len(mf_blocks) - 1) :
                    mf_blocks[j] = mf_blocks[k] => j = k
        /\ (Len(mf_blocks) - 1) * BlockSize - mf_size < BlockSize
        /\ Len(mo_blocks) = Ceiling(mo_size, mo_bs) + 1
        /\ mo_blocks[Len(mo_blocks)] = DummyEnd

\* C4 witness: after a swap the second vector holds more than one block of
\* elements, the first of them in a cell that an erase on the first vector
\* refilled, and the first vector holds elements too
C4_Witness ==
    /\ mf_status = "ok"
    /\ mo_size > BlockSize
    /\ Len(mo_blocks) = 3
    /\ ~mf_heap[mo_blocks[1]].c
    /\ mf_size > 0
    /\ Len(mf_blocks) = Ceiling(mf_size, BlockSize) + 1

\* C10: a move assignment dst = std::move(src) between mf_vectors of
\* different block sizes leaves in dst the elements src held, in order, with
\* a block index of ceil(size()/BlockSize) + 1 entries for the block size of
\* dst, and leaves src empty.
C10_MoveAssignOtherBlockSize ==
    [][MfMoveAssign =>
        /\ mf_status' = "ok"
        /\ mf_size' = mo_size
        /\ \A i \in 0 .. (mo_size - 1) : MfAt(MfThis, i)' = MfAt(MfOther, i)
        /\ Len(mf_blocks') = Ceiling(mf_size', BlockSize) + 1
        /\ mo_size' = 0]_vars

\* C11: move construction of a static_deque from a donor of the same or of
\* another capacity that can hold the donor's elements gives a deque with the
\* elements the donor held, in order, and leaves the donor empty.
C11_MoveConstructEmptiesDonor ==
    [][(\E cap \in OtherCapacities :
            SdMoveConstruct(cap) /\ sd_end - sd_begin <= TrueCapOf(cap)) =>
        /\ sd_status' = "ok"
        /\ SdContents(sd_dst') = SdContents(SdThis)
        /\ sd_end' - sd_begin' = 0]_vars

\* the cells of the blocks in the index blocks, but for the sentinel
MfBlockCells(blocks, bs) ==
    UNION {blocks[k] .. (blocks[k] + bs - 1) : k \in 1 .. (Len(blocks) - 1)}

\* C12: move assignment and move construction between mf_vectors of the
\* same block size hand over the blocks: afterwards the destination has the
\* block index and the size the source had, no cell of these blocks was
\* written (nothing constructed, assigned or destroyed in them), and the
\* source has size 0 and a block index that holds the sentinel only.
C12_MoveTransfersBlocks ==
    [][/\ (MfMoveAssign =>
              /\ mf_status' = "ok"
              /\ mf_blocks' = mo_blocks
              /\ mf_size' = mo_size
              /\ \A p \in MfBlockCells(mo_blocks, BlockSize) : mf_heap'[p] = mf_heap[p]
              /\ \A a \in DOMAIN mf_alloc' : mf_alloc'[a] = mf_alloc[a]
              /\ mo_blocks' = <<DummyEnd>>
              /\ mo_size' = 0)
       /\ (MoMoveConstruct =>
              /\ mf_status' = "ok"
              /\ mo_blocks' = mf_blocks
              /\ mo_size' = mf_size
              /\ mf_heap' = mf_heap
              /\ mf_alloc' = mf_alloc
              /\ mf_blocks' = <<DummyEnd>>
              /\ mf_size' = 0)]_vars

\* C12 witness: the vector holds more than one block of elements that went
\* through both transfers: its first element was pushed to it, moved to the
\* second vector by a move construction, and came back by a move assignment
\* together with an element pushed to the second vector
C12_Witness ==
    /\ mf_status = "ok"
    /\ mf_size > BlockSize
    /\ MfNow[1] = 1
    /\ MfNow[mf_size] = MaxVal
    /\ mo_size = 0
    /\ mo_blocks = <<DummyEnd>>

\* C13: copy construction of a static_deque, a static_vector or an mf_vector
\* from a source of the same or of another capacity or block size, the
\* constructed container being able to hold the source's elements, gives a
\* container of the source's size with an equal element at every index, in
\* storage of its own, and leaves the source's size and elements as they were.
C13_CopyConstruct ==
    [][/\ \A cap \in OtherCapacities :
            (SdCopyConstruct(cap) /\ sd_end - sd_begin <= TrueCapOf(cap)) =>
                /\ sd_status' = "ok"
                /\ SdContents(sd_dst') = SdContents(SdThis)
                /\ <<sd_elem', sd_begin', sd_end'>> = <<sd_elem, sd_begin, sd_end>>
       /\ \A cap \in SvOtherCapacities :
            (SvCopyConstruct(cap) /\ sv_size <= cap) =>
                /\ sv_status' = "ok"
                /\ sv_dst'.size = sv_size
                /\ SvContents(sv_dst') = SvContents(SvThis)
                /\ <<sv_elem', sv_size'>> = <<sv_elem, sv_size>>
       /\ MoCopyConstruct =>
                /\ mf_status' = "ok"
                /\ mo_size' = mf_size
                /\ MoNow' = MfNow
                /\ Len(mo_blocks') = Ceiling(mo_size', mo_bs) + 1
                /\ MfBlockCells(mo_blocks', mo_bs) \cap MfBlockCells(mf_blocks, BlockSize) = {}
                /\ <<mf_blocks', mf_size'>> = <<mf_blocks, mf_size>>
                /\ \A p \in MfBlockCells(mf_blocks, BlockSize) : mf_heap'[p] = mf_heap[p]]_vars

\* C13 witness: an mf_vector of another block size was copy constructed from
\* a vector that fills more than one block of either size with elements that
\* are not all equal, and holds the same elements
C13_Witness ==
    /\ ct_kind = "mf"
    /\ mf_status = "ok"
    /\ mo_bs = OtherBlockSize
    /\ mf_size > OtherBlockSize
    /\ mo_size = mf_size
    /\ MoNow = MfNow
    /\ \E i \in 1 .. mf_size : MfNow[i] # MfNow[1]

\* C14: push_back and emplace_back move no element: every element below the
\* old size is in the same block at the same offset with the same value
\* after the call; the call allocates at most one block, and only when the
\* old size is a multiple of BlockSize; the new block takes the index slot
\* that held the sentinel, and the sentinel follows it.
C14_PushBackMovesNothing ==
    [][\A v \in Val : (mf_abs' = Append(MfNow, v) /\ MfPushBack(v)) =>
        LET n == Len(mf_blocks)
            new == DOMAIN mf_alloc' \ DOMAIN mf_alloc
        IN  /\ mf_status' = "ok"
            /\ mf_size' = mf_size + 1
            /\ \A i \in 0 .. (mf_size - 1) :
                  LET k == (i \div BlockSize) + 1
                  IN  /\ mf_blocks'[k] = mf_blocks[k]
                      /\ mf_heap'[mf_blocks[k] + (i % BlockSize)]
                            = mf_heap[mf_blocks[k] + (i % BlockSize)]
            /\ DOMAIN mf_alloc \subseteq DOMAIN mf_alloc'
            /\ Cardinality(new) <= 1
            /\ new # {} => /\ mf_size % BlockSize = 0
                           /\ Len(mf_blocks') = n + 1
                           /\ mf_blocks'[n] \in new
                           /\ mf_blocks'[n + 1] = DummyEnd
            /\ new = {} => mf_blocks' = mf_blocks]_vars

\* C14 witness: an element was appended to a vector whose only block was
\* full, and a second block follows the first in the index
C14_Witness ==
    /\ mf_status = "ok"
    /\ mf_size = BlockSize + 1
    /\ Len(mf_blocks) = 3
    /\ mf_blocks[3] = DummyEnd
    /\ MfNow[1] = 1
    /\ MfNow[mf_size] = MaxVal

\* the step put n elements in at index i: the vector is n longer, every
\* element below i is in the cell it was in with the value it had, and every
\* element formerly at an index j from i on is at j + n
MfInsertedAt(i, n) ==
    /\ mf_status' = "ok"
    /\ mf_size' = mf_size + n
    /\ \A j \in 0 .. (i - 1) :
          LET k == (j \div BlockSize) + 1
          IN  /\ mf_blocks'[k] = mf_blocks[k]
              /\ mf_heap'[mf_blocks[k] + (j % BlockSize)]
                    = mf_heap[mf_blocks[k] + (j % BlockSize)]
    /\ \A j \in i .. (mf_size - 1) : MfAt(MfThis, j + n)' = MfAt(MfThis, j)

\* a call of one of the forms of insert that puts the elements vals in at i
MfInsertCall(i, vals) ==
    \/ Len(vals) = 1 /\ MfEmplace(i, vals[1])
    \/ \E v \in Val : vals = Fill(Len(vals), v) /\ MfInsertFill(i, Len(vals), v)
    \/ MfInsertIl(i, vals)
    \/ MfInsertRange(i, vals)

\* C15: insert and emplace of n elements at index i, in the single-element,
\* fill, initializer-list and range forms, leave every element below i in
\* the same cell with the same value and move each element formerly at
\* j >= i to j + n, across block boundaries and into new blocks too.
C15_InsertShiftsTail ==
    [][\A i \in MfPositions, n \in 0 .. MaxN :
          LET vals == SubSeq(mf_abs', i + 1, i + n)
          IN  (/\ Len(mf_abs') = mf_size + n
               /\ mf_abs' = InsertAt(MfNow, i, vals)
               /\ MfInsertCall(i, vals))
                  => MfInsertedAt(i, n)]_vars

\* C15 witness: a full vector of more than one block whose elements are not
\* in the order an append would give: the value appended last to the others
\* is at the front
C15_Witness ==
    /\ mf_status = "ok"
    /\ mf_size = MfMaxSize
    /\ Len(mf_blocks) = Ceiling(MfMaxSize, BlockSize) + 1
    /\ MfNow[1] = MaxVal
    /\ \A i \in 2 .. mf_size : MfNow[i] = 1

\* the call that took the vector from x to r put its n elements in, or
\* threw and left the vector as it was: the index, the size and every cell of
\* the blocks in the index, and no block held that was not held before,
\* unless it was the growth of the index that failed
MfAllOrNothing(x, r, n, f) ==
    \/ r.st = "ok" /\ r.size = x.size + n
    \/ /\ r.st = "throw"
       /\ r.size = x.size
       /\ r.blocks = x.blocks
       /\ Len(r.blocks) = Ceiling(r.size, r.bs) + 1
       /\ r.blocks[Len(r.blocks)] = DummyEnd
       /\ \A p \in MfBlockCells(x.blocks, x.bs) : r.heap[p] = x.heap[p]
       /\ MfContents(r) = MfContents(x)
       /\ f.idx = NoLimit => r.alloc = x.alloc

\* C16: when the allocation of a block or the growth of the block index
\* fails in push_back, emplace_back, emplace or a fill or initializer-list
\* insert, the failure reaches the caller and the vector is as before the
\* call: same size, same elements, an index of ceil(size/BlockSize) + 1
\* entries that ends in the sentinel, the blocks added by the call released.
\* Stated of every such call that can be made in the state.
C16_GrowFailureRollsBack ==
    mf_status = "ok" =>
        \A f \in Failures :
            LET x == MfFailing(MfThis, f)
            IN  /\ mf_size < MfGrowMaxSize =>
                    /\ MfAllOrNothing(x, MfPushBackOp(x, 1), 1, f)
                    /\ \A i \in MfPositions :
                          MfAllOrNothing(x, MfEmplaceOp(x, MfPos(i), MaxVal), 1, f)
                /\ \A i \in MfPositions, n \in 0 .. (BlockSize + 1) :
                      mf_size + n <= MfGrowMaxSize =>
                          /\ MfAllOrNothing(x, MfInsertFillOp(x, MfPos(i), n, MaxVal), n, f)
                          /\ MfAllOrNothing(x, MfInsertIlOp(x, MfPos(i), Fill(n, 1)), n, f)

\* C16 witness: a call threw and left a vector of two full blocks
C16_Witness ==
    /\ mf_status = "throw"
    /\ mf_size = 2 * BlockSize
    /\ Len(mf_blocks) = Ceiling(mf_size, BlockSize) + 1
    /\ MfNow = mf_abs

\* C17: when an allocation fails during the range insert, the failure
\* reaches the caller, the vector has the size and the contents it had
\* before the call, and the elements the call had appended are destroyed.
C17_RangeInsertFailure ==
    [][\A f \in Failures, i \in MfPositions :
          MfInsertRangeF(i, <<MaxVal, 1>>, f) =>
              \/ mf_status' = "ok" /\ mf_size' = mf_size + 2
              \/ /\ mf_status' = "throw"
                 /\ mf_size' = mf_size
                 /\ mf_blocks' = mf_blocks
                 /\ MfNow' = MfNow
                 /\ \A p \in MfBlockCells(mf_blocks', BlockSize) :
                       mf_heap'[p].c => mf_heap[p].c]_vars

\* C18: reserve(n) changes nothing but the capacity of the block index and
\* makes capacity() at least n; and a push_back in a state where size() is
\* less than capacity() does not reallocate the index: the entries it needs,
\* ceil((size() + 1)/BlockSize) + 1, fit in the capacity of the index.
\* Stated of every such call that can be made in the state.
C18_ReserveAndCapacity ==
    mf_status = "ok" =>
        /\ \A n \in 0 .. MaxReserve :
              LET r == MfReserveOp(MfThis, n)
              IN  /\ r.st = "ok"
                  /\ <<r.size, r.blocks, r.heap, r.alloc>>
                        = <<mf_size, mf_blocks, mf_heap, mf_alloc>>
                  /\ MfCapacity(r) >= n
        /\ mf_size < MfCapacity(MfThis) =>
              /\ Ceiling(mf_size + 1, BlockSize) + 1 <= mf_cap
              /\ \A f \in Failures : MfPushBackOp(MfFailing(MfThis, f), 1).cap = mf_cap

\* C18 witness: the index has the capacity a reserve gave it, and the vector
\* has grown past the capacity the default constructor reserves
C18_Witness ==
    /\ mf_status = "ok"
    /\ mf_cap = SmallNBlocks + 2
    /\ mf_size = SmallNBlocks * BlockSize + 1
    /\ Len(mf_blocks) = SmallNBlocks + 2

\* the iterator r is on index j: on the index slot of block j / BlockSize, at
\* offset j % BlockSize of the block that slot points to
ItIsAt(r, j) ==
    LET f == mf_blocks[(j \div BlockSize) + 1]
    IN  r = [block |-> j \div BlockSize, first |-> f, last |-> f + BlockSize,
             current |-> f + (j % BlockSize)]

\* C20: for an iterator it on index i in [0, size()] and an offset k with
\* 0 <= i + k <= size(), it + k is on index i + k: it dereferences to element
\* i + k when that is below size() and equals end() when it is size(); and
\* (it + k) - k == it. The offsets include the negative ones, those that
\* cross one or several blocks, and those from and to the sentinel slot; the
\* iterators are those that begin() + i and i increments of begin() give.
C20_IteratorOffset ==
    mf_status = "ok" =>
        \A i \in 0 .. mf_size :
            \A it \in {MfPos(i), ItSteps(MfThis, MfBegin(MfThis), i)} :
                /\ ItIsAt(it, i)
                /\ \A k \in (0 - i) .. (mf_size - i) :
                      LET r == ItAdd(MfThis, it, k)
                      IN  /\ ItIsAt(r, i + k)
                          /\ i + k < mf_size =>
                                /\ MfIsLive(MfThis, r.current)
                                /\ mf_heap[r.current].v = MfAt(MfThis, i + k)
                          /\ i + k = mf_size => ItEq(r, MfEnd(MfThis))
                          /\ ItEq(ItAdd(MfThis, r, 0 - k), it)
                          /\ ItDiff(r, it) = k

\* C20 witness: a vector of two full blocks, where end() is on the sentinel
\* slot, end() - size() is begin() and begin() + size() is end()
C20_Witness ==
    /\ mf_status = "ok"
    /\ mf_size = 2 * BlockSize
    /\ MfEnd(MfThis).first = DummyEnd
    /\ ItEq(ItAdd(MfThis, MfEnd(MfThis), 0 - mf_size), MfBegin(MfThis))
    /\ ItEq(ItAdd(MfThis, MfBegin(MfThis), mf_size), MfEnd(MfThis))

\* C19: while one thread is in push_back or emplace_back and has not
\* reallocated the block index, a thread that reads elements that were there
\* before the append, through operator[] without contract checks or through
\* iterators got from begin() and kept on those elements, accesses no index
\* entry, element cell or member that the writer writes in that call.
C19_NoRaceOnAppend ==
    ~cc.realloc => cc.writes \cap cc.reads = {}

\* C19 witness: the writer has put a second block in the index without
\* reallocating it, and a reader has just read the last element that was
\* there before, in the block before the new one
C19_Witness ==
    /\ cc.pc = "inc"
    /\ ~cc.realloc
    /\ cc.size0 = BlockSize
    /\ Loc("slot", 1) \in cc.writes
    /\ Loc("slot", 2) \in cc.writes
    /\ cc.reads = MfAtReads(MfThis, cc.size0 - 1)

\* the iterators on index i that the program can make: begin() + i, and
\* begin() incremented i times
MfItsAt(i) == {MfPos(i), ItSteps(MfThis, MfBegin(MfThis), i)}

\* C21: for iterators a on index i and b on index j of the same vector, with
\* 0 <= i, j <= size() in either order and in any blocks, a - b = i - j,
\* a < b exactly when i < j, and a == b exactly when i = j.
C21_IteratorDifference ==
    mf_status = "ok" =>
        \A i \in 0 .. mf_size, j \in 0 .. mf_size :
            \A a \in MfItsAt(i), b \in MfItsAt(j) :
                /\ ItDiff(a, b) = i - j
                /\ ItLess(a, b) <=> i < j
                /\ ItEq(a, b) <=> i = j

\* C21 witness: a vector of two full blocks and begin() and end() of it, two
\* index slots apart, end() on the sentinel slot
C21_Witness ==
    /\ mf_status = "ok"
    /\ mf_size = 2 * BlockSize
    /\ MfEnd(MfThis).block - MfBegin(MfThis).block = 2
    /\ ItDiff(MfBegin(MfThis), MfEnd(MfThis)) = 0 - mf_size
    /\ ItLess(MfBegin(MfThis), MfEnd(MfThis))
    /\ ~ItEq(MfBegin(MfThis), MfEnd(MfThis))

\* C22: begin() incremented k times is on index k, for every k up to size();
\* it dereferences to element k when k < size(), and is end() exactly when k
\* is size(); ++it is it + 1 at every position before end() and --it is
\* it - 1 at every position after begin(), the steps from the last cell of a
\* block to the next index slot or to the sentinel slot, and back, included;
\* begin() + size() is end(), and begin() is end() in an empty vector.
C22_Traversal ==
    mf_status = "ok" =>
        /\ \A k \in 0 .. mf_size :
              LET it == ItSteps(MfThis, MfBegin(MfThis), k)
              IN  /\ ItIsAt(it, k)
                  /\ ItEq(it, MfEnd(MfThis)) <=> k = mf_size
                  /\ k < mf_size =>
                        /\ MfIsLive(MfThis, it.current)
                        /\ mf_heap[it.current].v = MfAt(MfThis, k)
                        /\ ItIncrement(MfThis, it) = ItAdd(MfThis, it, 1)
                        /\ ItDecrement(MfThis, ItIncrement(MfThis, it)) = it
                  /\ k > 0 =>
                        /\ ItDecrement(MfThis, it) = ItAdd(MfThis, it, 0 - 1)
                        /\ ItIsAt(ItDecrement(MfThis, it), k - 1)
        /\ ItEq(ItAdd(MfThis, MfBegin(MfThis), mf_size), MfEnd(MfThis))
        /\ mf_size = 0 => ItEq(MfBegin(MfThis), MfEnd(MfThis))

\* C22 witness: the size is a multiple of the block size, and the last of
\* size() increments went from the last cell of the last block to the
\* sentinel slot, where end() is
C22_Witness ==
    /\ mf_status = "ok"
    /\ mf_size = 2 * BlockSize
    /\ ItSteps(MfThis, MfBegin(MfThis), mf_size - 1).block = 1
    /\ ItSteps(MfThis, MfBegin(MfThis), mf_size) = MfEnd(MfThis)
    /\ ItSteps(MfThis, MfBegin(MfThis), mf_size).first = DummyEnd

\* C23: erase(first, last) returns an iterator that, in the vector as the
\* erase left it, equals begin() + (first - old begin()): it is on the
\* element that followed the erased range, and equals end() when the range
\* went to the old end, also when the erase released trailing blocks;
\* erasing an empty range changes nothing.
C23_EraseReturn ==
    mf_status = "ok" =>
        \A i \in MfPositions, j \in MfPositions :
            i <= j =>
                LET r == MfEraseOp(MfThis, MfPos(i), MfPos(j))
                    f == MfEraseIt(MfThis, MfPos(i), MfPos(j))
                IN  /\ r.st = "ok"
                    /\ ItEq(f, ItAdd(r, MfBegin(r), i))
                    /\ j = mf_size => ItEq(f, MfEnd(r))
                    /\ j < mf_size =>
                          /\ MfIsLive(r, f.current)
                          /\ r.heap[f.current].v = MfNow[j + 1]
                    /\ i = j => r = MfThis

\* C24: static_deque erase(first, last), for first at index i and last at
\* index j <= size(), removes exactly the elements i .. j-1 and keeps the
\* order of the others; when i < size() - j it moves the i elements before
\* first and the elements from last on keep their cells, otherwise it moves
\* the elements from last on and those before first keep their cells; it
\* returns an iterator to the element that followed the erased range, which
\* is end() when there is none.
C24_DequeErase ==
    sd_status = "ok" =>
        \A i \in SdPositions, j \in SdPositions :
            i <= j =>
                LET r == SdEraseOp(SdThis, sd_begin + i, sd_begin + j)
                    n == j - i
                    sz == sd_end - sd_begin
                IN  /\ r.st = "ok"
                    /\ SdContents(r) = EraseAt(SdNow, i, j)
                    /\ IF i < sz - j
                       THEN /\ r.begin = sd_begin + n
                            /\ r.end = sd_end
                            /\ \A p \in (sd_begin + j) .. (sd_end - 1) :
                                  r.elem[p] = sd_elem[p]
                       ELSE /\ r.begin = sd_begin
                            /\ r.end = sd_end - n
                            /\ \A p \in sd_begin .. (sd_begin + i - 1) :
                                  r.elem[p] = sd_elem[p]
                    /\ r.t - r.begin = i
                    /\ IF j < sz THEN r.elem[r.t].v = SdNow[j + 1]
                       ELSE r.t = r.end

\* C24 witness: a deque of four elements or more, where erasing the second
\* element moves the first one to the right and erasing the last but one
\* moves the last one to the left
C24_Witness ==
    /\ sd_status = "ok"
    /\ sd_end - sd_begin >= 4
    /\ SdEraseOp(SdThis, sd_begin + 1, sd_begin + 2).begin = sd_begin + 1
    /\ SdEraseOp(SdThis, sd_end - 2, sd_end - 1).end = sd_end - 1
    /\ SdEraseOp(SdThis, sd_end - 2, sd_end - 1).t = sd_end - 2

\* C25: every static_vector insertion that would make size() exceed
\* Capacity (push_back, emplace_back, emplace and every insert overload:
\* single copy, move, fill, range from input iterators, range from random
\* access iterators, initializer list) trips a contract check before any
\* cell at an index >= Capacity is written.
C25_OverflowChecked ==
    sv_status = "ok" =>
        \A i \in SvPositions, x \in Val, xs \in Ranges :
            /\ sv_size + 1 > SvCapacity =>
                  /\ SvEmplaceBackOp(SvThis, x).st = "abort"
                  /\ SvEmplaceOp(SvThis, i, x).st = "abort"
                  /\ SvInsertOp(SvThis, i, x).st = "abort"
            /\ sv_size + Len(xs) > SvCapacity =>
                  /\ SvInsertFillOp(SvThis, i, Len(xs), x).st = "abort"
                  /\ SvInsertIlOp(SvThis, i, xs).st = "abort"
                  /\ SvInsertRangeInOp(SvThis, i, xs).st = "abort"
                  /\ SvInsertRangeRaOp(SvThis, i, xs).st = "abort"

\* the call left r without a contract check firing, holding xs inserted
\* before the element at index i: the elements before i unchanged, those from
\* i on shifted right in order
SvInsertedAt(r, i, xs) ==
    r.st = "ok" /\ SvContents(r) = InsertAt(SvNow, i, xs)

\* C26: static_vector accepts insertion at every position in [begin(),
\* end()], index 0, an interior index and size(), for every insert and
\* emplace overload while size() stays within Capacity: no contract check
\* fires, the elements before the position are unchanged and those at and
\* after it are shifted right in order.
C26_InsertAnywhere ==
    sv_status = "ok" =>
        \A i \in SvPositions, x \in Val, xs \in Ranges :
            /\ sv_size + 1 <= SvCapacity =>
                  /\ SvInsertedAt(SvEmplaceOp(SvThis, i, x), i, <<x>>)
                  /\ SvInsertedAt(SvInsertOp(SvThis, i, x), i, <<x>>)
            /\ sv_size + Len(xs) <= SvCapacity =>
                  /\ SvInsertedAt(SvInsertFillOp(SvThis, i, Len(xs), x), i,
                                  Fill(Len(xs), x))
                  /\ SvInsertedAt(SvInsertIlOp(SvThis, i, xs), i, xs)
                  /\ SvInsertedAt(SvInsertRangeInOp(SvThis, i, xs), i, xs)
                  /\ SvInsertedAt(SvInsertRangeRaOp(SvThis, i, xs), i, xs)

\* C27: for mf_vector, static_vector and static_deque, at(i) with
\* i >= size() raises std::out_of_range and leaves size() and every element
\* unchanged (at() writes nothing), and at(i) with i < size() returns the
\* element operator[](i) returns. The index takes every value of its type,
\* and the deque's storage every place in the address space.
C27_AtChecked ==
    \A index \in 0 .. (PtrSpace - 1) :
        /\ mf_status = "ok" =>
              MfAtOp(MfThis, index) =
                  IF index < mf_size THEN [st |-> "ok", v |-> MfAt(MfThis, index)]
                  ELSE [st |-> "throw", v |-> 0]
        /\ sv_status = "ok" =>
              SvAtOp(SvThis, index) =
                  IF index < sv_size THEN [st |-> "ok", v |-> SvAt(SvThis, index)]
                  ELSE [st |-> "throw", v |-> 0]
        /\ sd_status = "ok" =>
              \A base \in SdBases : \A r \in SdAtOp(SdThis, index, base) :
                  r = IF index < sd_end - sd_begin
                      THEN [st |-> "ok", v |-> SdAt(SdThis, index)]
                      ELSE [st |-> "throw", v |-> 0]

\* the vector with SelfCount::count beside its cells, the count being size()
SvCounted == [SvThis EXCEPT !.elem = Counted(@, sv_size)]

\* a vector under construction, count 0: the member initializer _size(0)
SvNewCounted ==
    [elem |-> Counted([p \in SvCells |-> RawCell], 0), size |-> 0, st |-> "ok"]

\* constructions minus destructions equals size() in the result r of a call
\* that returned
SvBalanced(r) == r.st = "ok" => r.elem[Tally].v = r.size

\* sequences a caller may pass where any number of values is accepted
SvSeqs == SeqsUpTo(Val, SvCapacity)

\* C28: in static_vector, after every public operation (constructors,
\* push_back/emplace_back, pop_back, insert in all forms, emplace, erase,
\* resize, assign, clear) the number of element constructions minus the number
\* of element destructions performed on its storage equals size()
C28_LifetimeBalance ==
    sv_status = "ok" =>
        /\ \A x \in Val : SvBalanced(SvEmplaceBackOp(SvCounted, x))
        /\ SvBalanced(SvPopBackOp(SvCounted))
        /\ SvBalanced(SvClearOp(SvCounted))
        /\ \A i \in SvPositions, x \in Val :
              /\ SvBalanced(SvEmplaceOp(SvCounted, i, x))
              /\ SvBalanced(SvInsertOp(SvCounted, i, x))
              /\ \A n \in 0..MaxN : SvBalanced(SvInsertFillOp(SvCounted, i, n, x))
        /\ \A i \in SvPositions, xs \in Ranges :
              /\ SvBalanced(SvInsertIlOp(SvCounted, i, xs))
              /\ SvBalanced(SvInsertRangeInOp(SvCounted, i, xs))
              /\ SvBalanced(SvInsertRangeRaOp(SvCounted, i, xs))
        /\ \A i \in SvPositions :
              /\ SvBalanced(SvEraseOneOp(SvCounted, i))
              /\ \A j \in SvPositions : SvBalanced(SvEraseOp(SvCounted, i, j))
        /\ \A n \in 0..SvCapacity, x \in Val : SvBalanced(SvResizeOp(SvCounted, n, x))
        /\ \A xs \in SvSeqs :
              /\ SvBalanced(SvAssignOp(SvCounted, xs))
              /\ SvBalanced(SvAssignIlOp(SvCounted, xs))
              /\ SvBalanced(SvMoveAssignOp(SvCounted, xs))
              /\ SvBalanced(SvFillConstructOp(SvNewCounted, xs))
              /\ SvBalanced(SvIlConstructOp(SvNewCounted, xs))
        /\ \A moves \in BOOLEAN :
              SvBalanced(SvCtorLoop(SvNewCounted, SvThis, 0, moves).dst)

\* an erase has left a destroyed cell among the elements and a constructed one
\* past the end, and an emplace in the middle returns with count and size 3
C28_Witness ==
    /\ sv_status = "ok"
    /\ sv_size = 2
    /\ ~sv_elem[0].c
    /\ sv_elem[2].c
    /\ LET r == SvEmplaceOp(SvCounted, 1, 1)
       IN  r.st = "ok" /\ r.size = 3 /\ r.elem[Tally].v = 3

\* the vector with SelfCount::count beside the cells of the heap, the count
\* being size()
MfCounted == [MfThis EXCEPT !.heap = Counted(@, mf_size)]

\* constructions minus destructions equals size() in the result r of a call
\* that returned
MfBalanced(r) == r.st = "ok" => r.heap[Tally].v = r.size

\* emplace and the fill and initializer-list inserts at index i leave the
\* count equal to size()
MfInsertsBalanced(i) ==
    LET pos == ItAdd(MfCounted, MfBegin(MfCounted), i)
    IN  /\ \A v \in Val : MfBalanced(MfEmplaceOp(MfCounted, pos, v))
        /\ \A n \in 0..MaxN, v \in Val :
              MfBalanced(MfInsertFillOp(MfCounted, pos, n, v))
        /\ \A il \in SeqsUpTo(Val, MaxN) :
              MfBalanced(MfInsertIlOp(MfCounted, pos, il))

\* the other operations leave the count equal to size()
MfOthersBalanced ==
    /\ \A v \in Val : MfBalanced(MfPushBackOp(MfCounted, v))
    /\ MfBalanced(MfPopBackOp(MfCounted))
    /\ MfBalanced(MfClearOp(MfCounted))
    /\ \A i \in MfPositions, vals \in SeqsUpTo(Val, MaxN) :
          MfBalanced(MfInsertRangeOp(MfCounted,
                                     ItAdd(MfCounted, MfBegin(MfCounted), i), vals))
    /\ \A i \in MfPositions, j \in MfPositions :
          i <= j => MfBalanced(MfEraseOp(MfCounted,
                                         ItAdd(MfCounted, MfBegin(MfCounted), i),
                                         ItAdd(MfCounted, MfBegin(MfCounted), j)))
    /\ \A n \in 0..MfMaxSize, v \in Val :
          /\ MfBalanced(MfResizeOp(MfCounted, n, v))
          /\ MfBalanced(MfAssignOp(MfCounted, n, v))

\* C29: in mf_vector constructions minus destructions equals size() after
\* every operation: emplace and insert (single, fill, initializer-list)
\* construct a new object only in a cell that holds no constructed element,
\* the cells vacated by the right shift being filled by assignment
C29_ConstructedCells ==
    mf_status = "ok" =>
        /\ \A i \in MfPositions : MfInsertsBalanced(i)
        /\ MfOthersBalanced

\* the deque with SelfCount::count beside its cells, the count being size()
SdCounted == [SdThis EXCEPT !.elem = Counted(@, sd_end - sd_begin)]

\* constructions minus destructions equals size() in the result r of a call
\* that returned
SdBalanced(r) == r.st = "ok" => r.elem[Tally].v = r.end - r.begin

\* emplace and every form of insert of at most Capacity - size() elements
\* at index i leave the count equal to size()
SdInsertsBalanced(i) ==
    LET pos == sd_begin + i
    IN  /\ SdFits(1) =>
              \A x \in Val :
                  /\ SdBalanced(SdEmplaceOp(SdCounted, pos, x))
                  /\ SdBalanced(SdInsertMoveOp(SdCounted, pos, x))
        /\ \A n \in 0..MaxN, x \in Val :
              SdFits(n) => SdBalanced(SdInsertFillOp(SdCounted, pos, n, x))
        /\ \A xs \in Ranges :
              SdFits(Len(xs)) =>
                  /\ SdBalanced(SdInsertIlOp(SdCounted, pos, xs))
                  /\ SdBalanced(SdInsertRangeRaOp(SdCounted, pos, xs))
                  /\ SdBalanced(SdInsertRangeInOp(SdCounted, pos, xs))

\* the other operations leave the count equal to size()
SdOthersBalanced ==
    /\ SdFits(1) =>
          \A x \in Val :
              /\ SdBalanced(SdPushFrontOp(SdCounted, x))
              /\ SdBalanced(SdPushBackOp(SdCounted, x))
    /\ SdBalanced(SdPopFrontOp(SdCounted))
    /\ SdBalanced(SdPopBackOp(SdCounted))
    /\ SdBalanced(SdClearOp(SdCounted))
    /\ \A i \in SdPositions, j \in SdPositions :
          i <= j => SdBalanced(SdEraseOp(SdCounted, sd_begin + i, sd_begin + j))

\* C30: in static_deque constructions minus destructions equals size() after
\* every operation, including emplace and insert at begin() or end() when the
\* window touches the buffer edge on that side and the existing elements have
\* to be shifted toward the other side
C30_DequeBalance ==
    sd_status = "ok" =>
        /\ \A i \in SdPositions : SdInsertsBalanced(i)
        /\ SdOthersBalanced

\* std::equal(first1, last1, first2), the ranges holding s and t
RECURSIVE StdEqual(_, _)
StdEqual(s, t) ==
    IF s = <<>> THEN TRUE
    ELSE IF ~(Head(s) = Head(t)) THEN FALSE
    ELSE StdEqual(Tail(s), Tail(t))

\* mutant: a comparison that stops at the end of the first range only
RECURSIVE MutStdLexicographicalCompare(_, _)
MutStdLexicographicalCompare(s, t) ==
    IF s = <<>> THEN TRUE
    ELSE IF t = <<>> THEN FALSE
    ELSE IF Head(s) < Head(t) THEN TRUE
    ELSE IF Head(t) < Head(s) THEN FALSE
    ELSE MutStdLexicographicalCompare(Tail(s), Tail(t))

\* std::lexicographical_compare(first1, last1, first2, last2)
RECURSIVE StdLexicographicalCompare(_, _)
StdLexicographicalCompare(s, t) ==
    IF s = <<>> \/ t = <<>> THEN s = <<>> /\ t # <<>>
    ELSE IF Head(s) < Head(t) THEN TRUE
    ELSE IF Head(t) < Head(s) THEN FALSE
    ELSE StdLexicographicalCompare(Tail(s), Tail(t))

\* operator==(lhs, rhs)
OpEq(lhs, rhs) == IF Len(lhs) # Len(rhs) THEN FALSE ELSE StdEqual(lhs, rhs)

\* operator!=(lhs, rhs)
OpNe(lhs, rhs) == ~OpEq(rhs, lhs)

\* operator<(lhs, rhs)
OpLt(lhs, rhs) == StdLexicographicalCompare(lhs, rhs)

\* operator<=(lhs, rhs)
OpLe(lhs, rhs) == ~OpLt(rhs, lhs)

\* operator>(lhs, rhs)
OpGt(lhs, rhs) == OpLt(rhs, lhs)

\* operator>=(lhs, rhs)
OpGe(lhs, rhs) == ~OpLt(lhs, rhs)

\* a program that works on containers of one of the three families
InitFamilies ==
    /\ SdInit
    /\ SvInit
    /\ MfInit
    /\ CtInit({"sd", "sv", "mf"})

FamiliesNext ==
    \/ ct_kind = "sv" /\ SvNext
    \/ ct_kind = "sd" /\ SdNext
    \/ ct_kind = "mf" /\ MfPairNext

SpecFamilies == InitFamilies /\ [][FamiliesNext]_vars

\* a second static_vector, constructed from the initializer list xs
SvOf(xs) ==
    SvIlConstructOp([elem |-> [p \in SvCells |-> RawCell], size |-> 0, st |-> "ok"], xs)

\* a second static_deque, constructed from the initializer list xs
SdOf(xs) ==
    LET d == SdIlConstructOp(xs)
    IN  [elem |-> d.elem, begin |-> d.begin, end |-> d.end, st |-> d.st]

\* the second containers a caller may hold
SvOthers == {SvOf(xs) : xs \in SvSeqs}

SdOthers == {SdOf(xs) : xs \in SeqsUpTo(Val, Capacity)}

\* a.swap(b) and swap(a, b) for two static_vectors: each ends with the
\* other's former element sequence, and a second swap restores both
SvSwapExchanges(a, b) ==
    LET r == SvSwapOp(a, b)
        rr == SvSwapOp(r.a, r.b)
    IN  /\ r.a.st = "ok" /\ r.b.st = "ok"
        /\ SvContents(r.a) = SvContents(b)
        /\ SvContents(r.b) = SvContents(a)
        /\ SvContents(rr.a) = SvContents(a)
        /\ SvContents(rr.b) = SvContents(b)

\* the same for two static_deques
SdSwapExchanges(a, b) ==
    LET r == SdSwapOp(a, b)
        rr == SdSwapOp(r.a, r.b)
    IN  /\ r.a.st = "ok" /\ r.b.st = "ok"
        /\ SdContents(r.a) = SdContents(b)
        /\ SdContents(r.b) = SdContents(a)
        /\ SdContents(rr.a) = SdContents(a)
        /\ SdContents(rr.b) = SdContents(b)

\* the same for two mf_vectors
MfSwapExchanges(w) ==
    LET r == MfSwapOp(w)
        rr == MfSwapOp(r)
    IN  /\ r.st = "ok"
        /\ MfContents(MfView(r, r.a)) = MfContents(MfView(w, w.b))
        /\ MfContents(MfView(r, r.b)) = MfContents(MfView(w, w.a))
        /\ MfContents(MfView(rr, rr.a)) = MfContents(MfView(w, w.a))
        /\ MfContents(MfView(rr, rr.b)) = MfContents(MfView(w, w.b))

\* C31: for all three containers, a.swap(b) and the non-member swap(a, b)
\* leave a with b's former element sequence and b with a's former element
\* sequence, for any pair of sizes (including empty), and applying swap twice
\* restores both original element sequences
C31_SwapExchanges ==
    /\ sv_status = "ok" =>
          \A b \in SvOthers : SvSwapExchanges(SvThis, b) /\ SvSwapExchanges(b, SvThis)
    /\ sd_status = "ok" =>
          \A b \in SdOthers : SdSwapExchanges(SdThis, b) /\ SdSwapExchanges(b, SdThis)
    /\ mf_status = "ok" => MfSwapExchanges(MfWorld)

\* a static_vector of three elements is swapped with one of one element
C31_Witness ==
    /\ ct_kind = "sv" /\ sv_status = "ok" /\ sv_size = 3
    /\ SvNow # <<MaxVal, MaxVal, MaxVal>>
    /\ SvContents(SvSwapOp(SvThis, SvOf(<<MaxVal>>)).b) = SvNow
    /\ SvContents(SvSwapOp(SvThis, SvOf(<<MaxVal>>)).a) = <<MaxVal>>

\* the swap of two mf_vectors leaves every cell of the free store and every
\* block as it was
MfSwapKeepsCells(w) ==
    LET r == MfSwapOp(w)
    IN  r.heap = w.heap /\ r.alloc = w.alloc

\* the swap of two static_vectors leaves every cell of both buffers as it was
SvSwapKeepsCells(a, b) ==
    LET r == SvSwapOp(a, b)
    IN  r.a.elem = a.elem /\ r.b.elem = b.elem

\* the swap of two static_deques leaves every cell of both buffers as it was
SdSwapKeepsCells(a, b) ==
    LET r == SdSwapOp(a, b)
    IN  r.a.elem = a.elem /\ r.b.elem = b.elem

\* C32: swap exchanges internal bookkeeping only, for each of the three
\* containers: it constructs, move-assigns and destroys no element, and every
\* element stays in the storage cell it occupied before the swap
C32_SwapKeepsCells ==
    /\ mf_status = "ok" => MfSwapKeepsCells(MfWorld)
    /\ sv_status = "ok" => \A b \in SvOthers : SvSwapKeepsCells(SvThis, b)
    /\ sd_status = "ok" => \A b \in SdOthers : SdSwapKeepsCells(SdThis, b)

\* the elements as an iteration from begin() to end() reads them, for the
\* container of the family the program works on and for a second one
FamilyPairs ==
    IF ct_kind = "sv" THEN {<<SvNow, SvContents(b)>> : b \in SvOthers}
    ELSE IF ct_kind = "sd" THEN {<<SdContents(SdThis), SdContents(b)>> : b \in SdOthers}
    ELSE {<<MfNow, MoNow>>}

\* s comes before t in the lexicographic order of sequences
LexLess(s, t) ==
    \E k \in 0 .. Min(Len(s), Len(t)) :
        /\ \A i \in 1..k : s[i] = t[i]
        /\ \/ k = Len(s) /\ k < Len(t)
           \/ k < Len(s) /\ k < Len(t) /\ s[k + 1] < t[k + 1]

\* the six operators on a and b are what the element sequences say
ComparesAsSequences(a, b) ==
    /\ OpEq(a, b) <=> (Len(a) = Len(b) /\ \A i \in 1..Len(a) : a[i] = b[i])
    /\ OpLt(a, b) <=> LexLess(a, b)
    /\ OpNe(a, b) <=> ~OpEq(a, b)
    /\ OpLe(a, b) <=> (OpLt(a, b) \/ OpEq(a, b))
    /\ OpGt(a, b) <=> OpLt(b, a)
    /\ OpGe(a, b) <=> (OpGt(a, b) \/ OpEq(a, b))
    /\ Cardinality({k \in {"lt", "eq", "gt"} :
                       \/ k = "lt" /\ OpLt(a, b)
                       \/ k = "eq" /\ OpEq(a, b)
                       \/ k = "gt" /\ OpGt(a, b)}) = 1

\* C33: for any two containers of the same family and element type, a == b
\* holds exactly when they have equal size() and equal elements at every
\* index, a < b is the lexicographic order of their element sequences, and
\* !=, <=, >, >= are the matching negations and reversals, so exactly one of
\* a < b, a == b, a > b holds
C33_Comparisons ==
    (sv_status = "ok" /\ sd_status = "ok" /\ mf_status = "ok") =>
        \A p \in FamilyPairs :
            ComparesAsSequences(p[1], p[2]) /\ ComparesAsSequences(p[2], p[1])

\* a static_vector that is less than a second one of the same size by its
\* last element, and greater than a third one that is a proper prefix of it
C33_Witness ==
    /\ ct_kind = "sv" /\ sv_status = "ok"
    /\ SvNow = <<1, MaxVal, 1>>
    /\ OpLt(SvNow, SvContents(SvOf(<<1, MaxVal, MaxVal>>)))
    /\ ~OpEq(SvNow, SvContents(SvOf(<<1, MaxVal, MaxVal>>)))
    /\ OpGt(SvNow, SvContents(SvOf(<<1, MaxVal>>)))

\* the numbers of elements a caller may pass to a constructor or to assign
SdCounts == 0 .. TrueCap

\* the deque r starts at Centered(size()), and the free cells in front of the
\* elements and behind them differ by at most one
SdCenteredNow(r) ==
    r.st = "ok" =>
        /\ r.begin = Centered(SdSize(r))
        /\ (r.begin - FirstSpace) - (PastLastSpace - r.end) \in {0 - 1, 0, 1}

\* the constructors and assignments that know the number of elements
SdSizedCentered ==
    /\ SdCenteredNow(SdDstNew(Capacity, 1))
    /\ \A n \in SdCounts :
          /\ SdCenteredNow(SdFillConstructOp(n, 1))
          /\ SdCenteredNow(SdIlConstructOp(Fill(n, 1)))
          /\ SdCenteredNow(SdRangeConstructOp(Fill(n, 1), TRUE))
          /\ SdCenteredNow(SdAssignFillOp(SdThis, n, 1))
          /\ SdCenteredNow(SdAssignIlOp(SdThis, Fill(n, 1)))
          /\ SdCenteredNow(SdAssignRangeOp(SdThis, Fill(n, 1), TRUE))
    /\ \A moves \in BOOLEAN : SdCenteredNow(SdConstructOp(Capacity, SdThis, moves).dst)
    /\ \A b \in SdOthers :
          /\ SdCenteredNow(SdAssignRangeOp(SdThis, SdContents(b), TRUE))
          /\ SdCenteredNow(SdMoveAssignOp(SdThis, b).d)

\* the range constructor and assign(begin, end) for iterators that are not
\* random access iterators
SdInputCentered ==
    \A n \in SdCounts :
        /\ SdCenteredNow(SdRangeConstructOp(Fill(n, 1), FALSE))
        /\ SdCenteredNow(SdAssignRangeOp(SdThis, Fill(n, 1), FALSE))

\* C34: every static_deque constructor and assign operation (default, fill,
\* range, copy, move, initializer-list, assign in all forms, operator=) leaves
\* the live range starting at Centered(size()), so that the free cells in
\* front of and behind the live range differ by at most one
C34_StartsCentered ==
    sd_status = "ok" => SdSizedCentered /\ SdInputCentered

\* the insert of the values xs at p that returned as r shifted one side only:
\* the elements from p on when fewer follow p than precede it and the cells
\* behind end() suffice, the elements before p otherwise; the other side kept
\* its cells, r.t is on the first inserted element
SdShiftedOneSide(d, p, xs, r) ==
    LET n == Len(xs)
        back == d.end - p < p - d.begin /\ d.end + n <= PastLastSpace
    IN  r.st = "ok" =>
            /\ r.t = IF back THEN p ELSE p - n
            /\ \A k \in 1..n : r.elem[r.t + k - 1].v = xs[k]
            /\ IF back
               THEN /\ r.begin = d.begin /\ r.end = d.end + n
                    /\ \A q \in d.begin .. (p - 1) : r.elem[q] = d.elem[q]
                    /\ \A q \in p .. (d.end - 1) : r.elem[q + n].v = d.elem[q].v
               ELSE /\ r.begin = d.begin - n /\ r.end = d.end
                    /\ \A q \in p .. (d.end - 1) : r.elem[q] = d.elem[q]
                    /\ \A q \in d.begin .. (p - 1) : r.elem[q - n].v = d.elem[q].v

SdPushedFront(d, x, r) ==
    r.st = "ok" =>
        /\ SdContents(r) = <<x>> \o SdContents(d)
        /\ IF d.begin = FirstSpace
           THEN r.begin = Centered(SdSize(d)) - 1 /\ r.end = Centered(SdSize(d)) + SdSize(d)
           ELSE /\ r.begin = d.begin - 1 /\ r.end = d.end
                /\ \A q \in d.begin .. (d.end - 1) : r.elem[q] = d.elem[q]

\* the same for a push at the back and the back edge
SdPushedBack(d, x, r) ==
    r.st = "ok" =>
        /\ SdContents(r) = Append(SdContents(d), x)
        /\ IF d.end = PastLastSpace
           THEN r.begin = Centered(SdSize(d)) /\ r.end = Centered(SdSize(d)) + SdSize(d) + 1
           ELSE /\ r.begin = d.begin /\ r.end = d.end + 1
                /\ \A q \in d.begin .. (d.end - 1) : r.elem[q] = d.elem[q]

\* C36: static_deque push_front/emplace_front/push_back/emplace_back relocate
\* existing elements only when the window touches the buffer edge on the
\* pushed side; in that case the live range is first slid to start at
\* Centered(size()) with the order and values of all elements preserved, and
\* in every other case no existing element changes its cell
C36_PushRelocation ==
    sd_status = "ok" =>
        \A x \in Val :
            /\ SdPushedFront(SdThis, x, SdPushFrontOp(SdThis, x))
            /\ SdPushedBack(SdThis, x, SdPushBackOp(SdThis, x))

\* two elements at the front edge of the buffer: push_front slides them
\* toward the middle and puts its element in front of them
C36_Witness ==
    /\ sd_status = "ok"
    /\ sd_begin = FirstSpace
    /\ sd_end - sd_begin = 2
    /\ SdContents(SdThis) = <<1, MaxVal>>
    /\ LET r == SdPushFrontOp(SdThis, MaxVal)
       IN  /\ r.st = "ok"
           /\ r.begin = Centered(2) - 1 /\ r.begin > FirstSpace - 1
           /\ SdContents(r) = <<MaxVal, 1, MaxVal>>

\* the blocks the index refers to, the sentinel left out
MfIndexed == {mf_blocks[k] : k \in 1 .. (Len(mf_blocks) - 1)}

\* C37: every element block allocated by an mf_vector is at all times either
\* referenced by exactly one slot of its block index or already released;
\* when growing the block index fails inside Grow after a new block has been
\* allocated, that block is released before the failure is propagated
C37_NoBlockLeak ==
    /\ DOMAIN mf_alloc = MfIndexed
    /\ \A j, k \in 1 .. (Len(mf_blocks) - 1) : mf_blocks[j] = mf_blocks[k] => j = k

\* exactly the cells of the live range hold a constructed element
SvExactlyLive(d) == \A p \in SvCells : d.elem[p].c <=> p < d.size

SdExactlyLive(d) == \A p \in SdCells : d.elem[p].c <=> (d.begin <= p /\ p < d.end)

MfExactlyLive(x) ==
    \A k \in 1 .. (Len(x.blocks) - 1), j \in 0 .. (x.bs - 1) :
        x.heap[x.blocks[k] + j].c <=> (k - 1) * x.bs + j < x.size

\* C38: erase in mf_vector, static_vector and static_deque never
\* move-assigns into a cell whose element the same call has already
\* destroyed, and after it returns exactly the cells of the live range hold
\* constructed elements. Stated of every erase(first, last) that can be
\* called in a state where exactly the live cells are constructed: a cell
\* that was destroyed and then assigned to is a live cell that holds no
\* constructed element.
C38_EraseLifetimes ==
    /\ (sv_status = "ok" /\ SvExactlyLive(SvThis)) =>
          \A first \in SvPositions, last \in SvPositions :
              first <= last => SvExactlyLive(SvEraseOp(SvThis, first, last))
    /\ (sd_status = "ok" /\ SdExactlyLive(SdThis)) =>
          \A first \in sd_begin .. sd_end, last \in sd_begin .. sd_end :
              first <= last => SdExactlyLive(SdEraseOp(SdThis, first, last))
    /\ (mf_status = "ok" /\ MfExactlyLive(MfThis)) =>
          \A first \in MfPositions, last \in MfPositions :
              first <= last => MfExactlyLive(MfEraseOp(MfThis, MfPos(first), MfPos(last)))

\* Recenter() is called by a push when the window is at the edge it pushes at
SdAtEdge == sd_begin = FirstSpace \/ sd_end = PastLastSpace

\* C39: static_deque Recenter move-assigns only into cells that hold a
\* constructed element, fills cells outside the old live range by
\* construction, and destroys the cells it vacates, so that after a
\* re-centering exactly the cells of the new live range hold constructed
\* elements. Stated of the Recenter() a push would call in a state where
\* exactly the live cells are constructed.
C39_RecenterLifetimes ==
    (sd_status = "ok" /\ SdAtEdge /\ SdExactlyLive(SdThis)) =>
        LET r == SdRecenter(SdThis)
        IN  r.st = "ok" => SdExactlyLive(r)
====
